---------------------------- MODULE Spec2Model ----------------------------
(***************************************************************************)
(* Model of the VACS profile editor core: the validator/normaliser         *)
(* (src/src/lib/validation.ts), the canonical serialiser                   *)
(* (src/src/lib/serializeProfile.ts), the undo/redo history hook           *)
(* (src/src/hooks/useProfileHistory.ts) and the editor controller          *)
(* (src/src/App.tsx).                                                      *)
(*                                                                         *)
(* JavaScript values are tagged records; a string is a sequence of         *)
(* one-character strings, a text (file content) likewise.  An object is    *)
(* an ordered sequence of entries [k |-> name, v |-> value] with distinct  *)
(* names, in insertion order, as Object.entries enumerates it.  A number   *)
(* is kept in tenths (n10), so 2.9 is Num10(29) and 4 is IntV(4).           *)
(***************************************************************************)
EXTENDS Integers, Sequences, FiniteSets, TLC

(***************************************************************************)
(* Sequence helpers (Array.prototype methods).                             *)
(***************************************************************************)
Range(s) == {s[i] : i \in DOMAIN s}

Slice(s, from, to) == SubSeq(s, from + 1, IF to > Len(s) THEN Len(s) ELSE to)

RemoveAt(s, i) == SubSeq(s, 1, i) \o SubSeq(s, i + 2, Len(s))

InsertAt(s, i, x) ==
  LET at == IF i > Len(s) THEN Len(s) ELSE i
  IN  SubSeq(s, 1, at) \o <<x>> \o SubSeq(s, at + 1, Len(s))

RECURSIVE Concat(_)
Concat(ss) == IF ss = <<>> THEN <<>> ELSE Head(ss) \o Concat(Tail(ss))

RECURSIVE Join(_, _)
Join(ss, sep) ==
  IF ss = <<>> THEN <<>>
  ELSE IF Len(ss) = 1 THEN ss[1]
  ELSE ss[1] \o sep \o Join(Tail(ss), sep)

RECURSIVE Repeat(_, _)
Repeat(s, n) == IF n <= 0 THEN <<>> ELSE s \o Repeat(s, n - 1)

(***************************************************************************)
(* Characters.                                                             *)
(***************************************************************************)
Digits == <<"0", "1", "2", "3", "4", "5", "6", "7", "8", "9">>

IsDigit(c) == \E i \in 1..10 : Digits[i] = c

DigitVal(c) == (CHOOSE i \in 1..10 : Digits[i] = c) - 1

IsSpace(c) == c \in {" ", "\n", "\t", "\r"}

RECURSIVE NatToStr(_)
NatToStr(n) ==
  IF n < 10 THEN <<Digits[n + 1]>>
  ELSE NatToStr(n \div 10) \o <<Digits[(n % 10) + 1]>>

(***************************************************************************)
(* JavaScript values.                                                      *)
(***************************************************************************)
Undef == [t |-> "undefined"]
Null == [t |-> "null"]
NaN == [t |-> "nan"]
Fn == [t |-> "function"]
THROW == [t |-> "throw"]
Bool(b) == [t |-> "boolean", b |-> b]
Num10(k) == [t |-> "number", n10 |-> k]
IntV(k) == Num10(k * 10)
Str(s) == [t |-> "string", s |-> s]
Arr(a) == [t |-> "array", a |-> a]
Obj(e) == [t |-> "object", e |-> e]
Ent(k, v) == [k |-> k, v |-> v]

IsStr(v) == v.t = "string"
IsArr(v) == v.t = "array"
IsObj(v) == v.t = "object"
IsNum(v) == v.t = "number"

\* typeof v
TypeOf(v) ==
  CASE v.t = "undefined" -> "undefined"
    [] v.t = "boolean" -> "boolean"
    [] v.t \in {"number", "nan"} -> "number"
    [] v.t = "string" -> "string"
    [] v.t = "function" -> "function"
    [] OTHER -> "object"

\* v == null
Nullish(v) == v.t \in {"undefined", "null"}

\* a ?? b
Coalesce(a, b) == IF Nullish(a) THEN b ELSE a

\* !v is false
Truthy(v) ==
  CASE v.t \in {"undefined", "null", "nan"} -> FALSE
    [] v.t = "boolean" -> v.b
    [] v.t = "number" -> v.n10 # 0
    [] v.t = "string" -> v.s # <<>>
    [] OTHER -> TRUE

\* Property names.
K_id == <<"i", "d">>
K_type == <<"t", "y", "p", "e">>
K_tabs == <<"t", "a", "b", "s">>
K_label == <<"l", "a", "b", "e", "l">>
K_page == <<"p", "a", "g", "e">>
K_rows == <<"r", "o", "w", "s">>
K_keys == <<"k", "e", "y", "s">>
K_client_page == <<"c", "l", "i", "e", "n", "t", "_", "p", "a", "g", "e">>
K_station_id == <<"s", "t", "a", "t", "i", "o", "n", "_", "i", "d">>

HasKey(o, k) == \E i \in DOMAIN o.e : o.e[i].k = k

KeyPos(o, k) == CHOOSE i \in DOMAIN o.e : o.e[i].k = k

\* v.k for a non-null v (a property of a primitive, or an own property that
\* is missing, reads undefined; the array method keys is a function)
Get(v, k) ==
  CASE v.t = "object" -> IF HasKey(v, k) THEN v.e[KeyPos(v, k)].v ELSE Undef
    [] v.t = "array" /\ k = K_keys -> Fn
    [] v.t \in {"undefined", "null"} -> THROW
    [] OTHER -> Undef

\* v?.k
GetOpt(v, k) == IF Nullish(v) THEN Undef ELSE Get(v, k)

\* { ...o, k: x } : an existing property keeps its place, a new one is last
Put(o, k, x) ==
  IF HasKey(o, k)
  THEN Obj([i \in DOMAIN o.e |-> IF o.e[i].k = k THEN Ent(k, x) ELSE o.e[i]])
  ELSE Obj(Append(o.e, Ent(k, x)))

\* { ...v } of any value: own enumerable properties (of a string, its
\* characters under their indices; of an array, its elements likewise)
SpreadObj(v) ==
  CASE v.t = "object" -> v
    [] v.t = "array" -> Obj([i \in DOMAIN v.a |-> Ent(NatToStr(i - 1), v.a[i])])
    [] v.t = "string" -> Obj([i \in DOMAIN v.s |-> Ent(NatToStr(i - 1), Str(<<v.s[i]>>))])
    [] OTHER -> Obj(<<>>)

(***************************************************************************)
(* String(v), Number(v), Math.floor, Math.max(1, .), String.prototype.trim *)
(***************************************************************************)
RECURSIVE TrimLeft(_)
TrimLeft(s) == IF s # <<>> /\ IsSpace(Head(s)) THEN TrimLeft(Tail(s)) ELSE s

RECURSIVE TrimRight(_)
TrimRight(s) ==
  IF s # <<>> /\ IsSpace(s[Len(s)]) THEN TrimRight(SubSeq(s, 1, Len(s) - 1)) ELSE s

Trim(s) == TrimRight(TrimLeft(s))

\* Number.prototype.toString of a number kept in tenths
NumToStr(k) ==
  LET a == IF k < 0 THEN -k ELSE k
      body == NatToStr(a \div 10)
                \o (IF a % 10 = 0 THEN <<>> ELSE <<".", Digits[(a % 10) + 1]>>)
  IN  IF k < 0 THEN <<"-">> \o body ELSE body

S_null == <<"n", "u", "l", "l">>
S_true == <<"t", "r", "u", "e">>
S_false == <<"f", "a", "l", "s", "e">>
S_undefined == <<"u", "n", "d", "e", "f", "i", "n", "e", "d">>
S_NaN == <<"N", "a", "N">>
S_objectObject ==
  <<"[", "o", "b", "j", "e", "c", "t", " ", "O", "b", "j", "e", "c", "t", "]">>
S_function == <<"f", "u", "n", "c", "t", "i", "o", "n">>

RECURSIVE ToStr(_)
ToStr(v) ==
  CASE v.t = "undefined" -> S_undefined
    [] v.t = "null" -> S_null
    [] v.t = "nan" -> S_NaN
    [] v.t = "boolean" -> IF v.b THEN S_true ELSE S_false
    [] v.t = "number" -> NumToStr(v.n10)
    [] v.t = "string" -> v.s
    [] v.t = "array" ->
         Join([i \in DOMAIN v.a |-> IF Nullish(v.a[i]) THEN <<>> ELSE ToStr(v.a[i])],
              <<",">>)
    [] v.t = "function" -> S_function
    [] OTHER -> S_objectObject

RECURSIVE DigitsToNat(_)
DigitsToNat(s) ==
  IF s = <<>> THEN 0 ELSE DigitsToNat(SubSeq(s, 1, Len(s) - 1)) * 10 + DigitVal(s[Len(s)])

\* Number(s) of a string: blank is 0, a run of decimal digits its value, and
\* any other text over the modelled alphabet is NaN
StrToNumber(s) ==
  LET u == Trim(s)
  IN  IF u = <<>> THEN IntV(0)
      ELSE IF \A i \in DOMAIN u : IsDigit(u[i]) THEN IntV(DigitsToNat(u))
      ELSE NaN

\* Number(v)
ToNumber(v) ==
  CASE v.t \in {"number", "nan"} -> v
    [] v.t = "null" -> IntV(0)
    [] v.t = "boolean" -> IF v.b THEN IntV(1) ELSE IntV(0)
    [] v.t \in {"string", "array"} -> StrToNumber(ToStr(v))
    [] OTHER -> NaN

\* Math.floor(v)
MathFloor(v) ==
  LET n == ToNumber(v)
  IN  IF n.t = "nan" THEN NaN ELSE IntV(n.n10 \div 10)

\* Math.max(1, v) for a number v
MathMax1(n) == IF n.t = "nan" THEN NaN ELSE IF n.n10 < 10 THEN IntV(1) ELSE n

(***************************************************************************)
(* JSON.stringify(v, null, ind): ind = 0 is the compact form.  A property  *)
(* whose value is undefined or a function is left out; such an array       *)
(* element, and NaN, is written null.                                      *)
(***************************************************************************)
EscapeChar(c) ==
  CASE c = "\"" -> <<"\\", "\"">>
    [] c = "\\" -> <<"\\", "\\">>
    [] c = "\n" -> <<"\\", "n">>
    [] c = "\t" -> <<"\\", "t">>
    [] c = "\r" -> <<"\\", "r">>
    [] OTHER -> <<c>>

\* JSON.stringify of a string
QuoteStr(s) == <<"\"">> \o Concat([i \in DOMAIN s |-> EscapeChar(s[i])]) \o <<"\"">>

\* JSON.stringify of a primitive
PrimToJson(v) ==
  CASE v.t = "boolean" -> IF v.b THEN S_true ELSE S_false
    [] v.t = "number" -> NumToStr(v.n10)
    [] v.t = "string" -> QuoteStr(v.s)
    [] OTHER -> S_null

Omitted(v) == v.t \in {"undefined", "function"}

KeptEntries(e) == SelectSeq(e, LAMBDA x : ~Omitted(x.v))

RECURSIVE Stringify(_, _, _)
Stringify(v, ind, depth) ==
  LET nl == IF ind = 0 THEN <<>> ELSE <<"\n">>
      inner == nl \o Repeat(<<" ">>, ind * (depth + 1))
      outer == nl \o Repeat(<<" ">>, ind * depth)
      colon == IF ind = 0 THEN <<":">> ELSE <<":", " ">>
  IN  CASE v.t = "array" ->
             IF v.a = <<>> THEN <<"[", "]">>
             ELSE <<"[">>
                    \o Join([i \in DOMAIN v.a |-> inner \o Stringify(v.a[i], ind, depth + 1)],
                            <<",">>)
                    \o outer \o <<"]">>
        [] v.t = "object" ->
             LET e == KeptEntries(v.e)
             IN  IF e = <<>> THEN <<"{", "}">>
                 ELSE <<"{">>
                        \o Join([i \in DOMAIN e |->
                                   inner \o QuoteStr(e[i].k) \o colon
                                     \o Stringify(e[i].v, ind, depth + 1)],
                                <<",">>)
                        \o outer \o <<"}">>
        [] OTHER -> PrimToJson(v)

\* JSON.stringify(v)
JSONstringify(v) == Stringify(v, 0, 0)

\* JSON.stringify(v, null, 2)
JSONstringify2(v) == Stringify(v, 2, 0)

(***************************************************************************)
(* JSON.parse: a result is [ok, v, p], p the position after the value.     *)
(* Numbers are read with at most one fractional digit and no exponent,     *)
(* the range the model's numbers cover.                                    *)
(***************************************************************************)
ParseFail == [ok |-> FALSE, v |-> Undef, p |-> 0]
ParseOk(v, p) == [ok |-> TRUE, v |-> v, p |-> p]

RECURSIVE SkipWs(_, _)
SkipWs(s, p) == IF p <= Len(s) /\ IsSpace(s[p]) THEN SkipWs(s, p + 1) ELSE p

Unescape(c) ==
  CASE c = "n" -> "\n"
    [] c = "t" -> "\t"
    [] c = "r" -> "\r"
    [] OTHER -> c

\* the characters of a string literal from position p, just after its quote
RECURSIVE ScanStr(_, _, _)
ScanStr(s, p, acc) ==
  IF p > Len(s) THEN ParseFail
  ELSE IF s[p] = "\"" THEN ParseOk(acc, p + 1)
  ELSE IF s[p] \in {"\n", "\t", "\r"} THEN ParseFail
  ELSE IF s[p] = "\\"
       THEN IF p + 1 <= Len(s) /\ s[p + 1] \in {"\"", "\\", "/", "n", "t", "r"}
            THEN ScanStr(s, p + 2, Append(acc, Unescape(s[p + 1])))
            ELSE ParseFail
  ELSE ScanStr(s, p + 1, Append(acc, s[p]))

RECURSIVE DigitsEnd(_, _)
DigitsEnd(s, p) == IF p <= Len(s) /\ IsDigit(s[p]) THEN DigitsEnd(s, p + 1) ELSE p

ParseNumber(s, p) ==
  LET neg == s[p] = "-"
      i0 == IF neg THEN p + 1 ELSE p
      i1 == DigitsEnd(s, i0)
      whole == DigitsToNat(SubSeq(s, i0, i1 - 1))
      frac == i1 + 1 <= Len(s) /\ s[i1] = "."
      i2 == IF frac THEN DigitsEnd(s, i1 + 1) ELSE i1
      tenths == IF frac THEN DigitVal(s[i1 + 1]) ELSE 0
      mag == whole * 10 + tenths
  IN  IF i1 = i0 \/ (i1 - i0 > 1 /\ s[i0] = "0") THEN ParseFail
      ELSE IF frac /\ i2 # i1 + 2 THEN ParseFail
      ELSE IF i2 <= Len(s) /\ s[i2] \in {".", "e", "E"} THEN ParseFail
      ELSE ParseOk(Num10(IF neg THEN -mag ELSE mag), i2)

ParseLiteral(s, p, word, v) ==
  IF p + Len(word) - 1 <= Len(s) /\ SubSeq(s, p, p + Len(word) - 1) = word
  THEN ParseOk(v, p + Len(word))
  ELSE ParseFail

\* a property read twice keeps its first place and its last value
PutEntry(e, k, x) == Put(Obj(e), k, x).e

RECURSIVE ParseValue(_, _)
RECURSIVE ParseElements(_, _, _)
RECURSIVE ParseMembers(_, _, _)

ParseValue(s, p0) ==
  LET p == SkipWs(s, p0)
  IN  IF p > Len(s) THEN ParseFail
      ELSE CASE s[p] = "{" ->
                  IF SkipWs(s, p + 1) <= Len(s) /\ s[SkipWs(s, p + 1)] = "}"
                  THEN ParseOk(Obj(<<>>), SkipWs(s, p + 1) + 1)
                  ELSE ParseMembers(s, p + 1, <<>>)
             [] s[p] = "[" ->
                  IF SkipWs(s, p + 1) <= Len(s) /\ s[SkipWs(s, p + 1)] = "]"
                  THEN ParseOk(Arr(<<>>), SkipWs(s, p + 1) + 1)
                  ELSE ParseElements(s, p + 1, <<>>)
             [] s[p] = "\"" ->
                  LET r == ScanStr(s, p + 1, <<>>)
                  IN  IF r.ok THEN ParseOk(Str(r.v), r.p) ELSE ParseFail
             [] s[p] = "-" \/ IsDigit(s[p]) -> ParseNumber(s, p)
             [] s[p] = "t" -> ParseLiteral(s, p, S_true, Bool(TRUE))
             [] s[p] = "f" -> ParseLiteral(s, p, S_false, Bool(FALSE))
             [] s[p] = "n" -> ParseLiteral(s, p, S_null, Null)
             [] OTHER -> ParseFail

\* the elements of an array from position p0, acc the ones read so far
ParseElements(s, p0, acc) ==
  LET r == ParseValue(s, p0)
      q == SkipWs(s, r.p)
  IN  IF ~r.ok \/ q > Len(s) THEN ParseFail
      ELSE IF s[q] = "," THEN ParseElements(s, q + 1, Append(acc, r.v))
      ELSE IF s[q] = "]" THEN ParseOk(Arr(Append(acc, r.v)), q + 1)
      ELSE ParseFail

\* the members of an object from position p0, acc the entries read so far
ParseMembers(s, p0, acc) ==
  LET p == SkipWs(s, p0)
      k == IF p <= Len(s) /\ s[p] = "\"" THEN ScanStr(s, p + 1, <<>>) ELSE ParseFail
      c == IF k.ok THEN SkipWs(s, k.p) ELSE 0
      r == IF k.ok /\ c <= Len(s) /\ s[c] = ":" THEN ParseValue(s, c + 1) ELSE ParseFail
      q == IF r.ok THEN SkipWs(s, r.p) ELSE 0
  IN  IF ~r.ok \/ q > Len(s) THEN ParseFail
      ELSE IF s[q] = "," THEN ParseMembers(s, q + 1, PutEntry(acc, k.v, r.v))
      ELSE IF s[q] = "}" THEN ParseOk(Obj(PutEntry(acc, k.v, r.v)), q + 1)
      ELSE ParseFail

\* JSON.parse(text): [ok |-> FALSE] stands for the SyntaxError it throws
JSONparse(s) ==
  LET r == ParseValue(s, 1)
  IN  IF r.ok /\ SkipWs(s, r.p) = Len(s) + 1 THEN [ok |-> TRUE, v |-> r.v]
      ELSE [ok |-> FALSE, v |-> Undef]

\* JSON.parse(JSON.stringify(v)) of a value: a property that is undefined or
\* a function is dropped, such an array element and NaN become null
RECURSIVE JsonClone(_)
JsonClone(v) ==
  CASE v.t = "array" ->
         Arr([i \in DOMAIN v.a |-> IF Omitted(v.a[i]) THEN Null ELSE JsonClone(v.a[i])])
    [] v.t = "object" ->
         Obj([i \in DOMAIN KeptEntries(v.e) |->
                Ent(KeptEntries(v.e)[i].k, JsonClone(KeptEntries(v.e)[i].v))])
    [] v.t = "nan" -> Null
    [] OTHER -> v

(***************************************************************************)
(* src/src/lib/validation.ts                                               *)
(***************************************************************************)
S_Tabbed == <<"T", "a", "b", "b", "e", "d">>

Err(path, message) == [path |-> path, message |-> message]

TabPath(i, suffix) == K_tabs \o <<"[">> \o NatToStr(i) \o <<"]">> \o suffix

\* typeof v === 'string' && v.trim() !== ''
NonBlankString(v) == IsStr(v) /\ Trim(v.s) # <<>>

\* faulty variant: the body of tabs.forEach stopping at the first error of a tab
ValidateTabFirst(t, i) ==
  IF Nullish(t) \/ TypeOf(t) # "object"
  THEN <<Err(TabPath(i, <<>>), "Tab must be an object")>>
  ELSE IF ~NonBlankString(Get(t, K_label))
  THEN <<Err(TabPath(i, <<".">> \o K_label), "Tab label must be non-empty")>>
  ELSE IF Nullish(Get(t, K_page)) \/ TypeOf(Get(t, K_page)) # "object"
  THEN <<Err(TabPath(i, <<".">> \o K_page), "Tab must have a page")>>
  ELSE <<>>

\* faulty variant: validateProfile that records the type error and goes on
validateProfileTypeLast(data) ==
  IF Nullish(data) \/ TypeOf(data) # "object"
  THEN [ok |-> FALSE, profile |-> Undef,
        errors |-> <<Err(<<>>, "Invalid JSON: expected an object")>>]
  ELSE
    LET errors ==
          (IF Get(data, K_type) # Str(S_Tabbed)
           THEN <<Err(K_type, "Only Tabbed profiles are supported")>> ELSE <<>>)
          \o
          (IF ~NonBlankString(Get(data, K_id))
           THEN <<Err(K_id, "Profile id must be a non-empty string")>> ELSE <<>>)
    IN  IF errors # <<>>
        THEN [ok |-> FALSE, profile |-> Undef, errors |-> errors]
        ELSE [ok |-> TRUE, profile |-> data, errors |-> <<>>]

\* the checks of the page of tab i (validation.ts lines 42-49)
ValidatePage(page, i) ==
  LET rows == Get(page, K_rows)
      keys == Get(page, K_keys)
  IN  (IF TypeOf(rows) # "number" \/ (rows.t = "number" /\ rows.n10 < 10)
       THEN <<Err(TabPath(i, <<".">> \o K_page \o <<".">> \o K_rows), "Rows must be at least 1")>>
       ELSE <<>>)
      \o
      (IF ~Nullish(keys) /\ ~IsArr(keys)
       THEN <<Err(TabPath(i, <<".">> \o K_page \o <<".">> \o K_keys), "Keys must be an array")>>
       ELSE <<>>)

\* the body of tabs.forEach for the tab t at index i (validation.ts lines 30-50)
ValidateTab(t, i) ==
  IF Nullish(t) \/ TypeOf(t) # "object"
  THEN <<Err(TabPath(i, <<>>), "Tab must be an object")>>
  ELSE (IF ~NonBlankString(Get(t, K_label))
        THEN <<Err(TabPath(i, <<".">> \o K_label), "Tab label must be non-empty")>>
        ELSE <<>>)
       \o
       (IF Nullish(Get(t, K_page)) \/ TypeOf(Get(t, K_page)) # "object"
        THEN <<Err(TabPath(i, <<".">> \o K_page), "Tab must have a page")>>
        ELSE ValidatePage(Get(t, K_page), i))

\* validateProfile(data): [ok, profile, errors]
validateProfile(data) ==
  IF Nullish(data) \/ TypeOf(data) # "object"
  THEN [ok |-> FALSE, profile |-> Undef,
        errors |-> <<Err(<<>>, "Invalid JSON: expected an object")>>]
  ELSE IF Get(data, K_type) # Str(S_Tabbed)
  THEN [ok |-> FALSE, profile |-> Undef,
        errors |-> <<Err(K_type, "Only Tabbed profiles are supported")>>]
  ELSE
    LET id == Get(data, K_id)
        tabsV == Get(data, K_tabs)
        tabs == IF IsArr(tabsV) THEN tabsV.a ELSE <<>>
        errors ==
          (IF ~NonBlankString(id)
           THEN <<Err(K_id, "Profile id must be a non-empty string")>> ELSE <<>>)
          \o
          (IF ~IsArr(tabsV) \/ tabsV.a = <<>>
           THEN <<Err(K_tabs, "Profile must have at least one tab")>> ELSE <<>>)
          \o
          Concat([i \in DOMAIN tabs |-> ValidateTab(tabs[i], i - 1)])
    IN  IF errors # <<>>
        THEN [ok |-> FALSE, profile |-> Undef, errors |-> errors]
        ELSE [ok |-> TRUE, profile |-> data, errors |-> <<>>]

\* v.trim(): a TypeError when v is not a string
TrimOf(v) == IF IsStr(v) THEN Str(Trim(v.s)) ELSE THROW

\* Math.max(1, Math.floor(rows ?? 4))
NormRows(rows) == MathMax1(MathFloor(Coalesce(rows, IntV(4))))

AnyThrow(s) == \E i \in DOMAIN s : s[i] = THROW

\* an object literal: THROW when the evaluation of an entry threw
ObjOf(e) == IF \E i \in DOMAIN e : e[i].v = THROW THEN THROW ELSE Obj(e)

RECURSIVE normalizeKey(_)
RECURSIVE normalizePage(_)

\* the key mapper of normalizeProfile and normalizePage
\* (validation.ts lines 82-86 and 96-100)
normalizeKey(k) ==
  IF Nullish(k) THEN THROW
  ELSE
    LET label == Get(k, K_label)
        sid == Get(k, K_station_id)
        page == Get(k, K_page)
    IN  ObjOf(
          <<Ent(K_label,
                IF IsArr(label)
                THEN Arr([i \in DOMAIN Slice(label.a, 0, 3) |-> Str(ToStr(label.a[i]))])
                ELSE Arr(<<>>))>>
          \o (IF ~Nullish(sid) /\ sid # Str(<<>>)
              THEN <<Ent(K_station_id, Str(ToStr(sid)))>> ELSE <<>>)
          \o (IF ~Nullish(page) THEN <<Ent(K_page, normalizePage(page))>> ELSE <<>>))

\* (keys ?? []).map(normalizeKey): a TypeError when keys is no array
NormKeys(keys) ==
  LET ks == Coalesce(keys, Arr(<<>>))
  IN  IF ~IsArr(ks) THEN THROW
      ELSE LET out == [i \in DOMAIN ks.a |-> normalizeKey(ks.a[i])]
           IN  IF AnyThrow(out) THEN THROW ELSE Arr(out)

\* normalizePage(page), page not null
normalizePage(page) ==
  ObjOf(<<Ent(K_rows, NormRows(Get(page, K_rows))),
          Ent(K_keys, NormKeys(Get(page, K_keys)))>>)

\* the tab mapper of normalizeProfile (validation.ts lines 72-89)
normalizeTab(tab) ==
  IF Nullish(tab) THEN THROW
  ELSE
    LET page == Get(tab, K_page)
    IN  IF ~Nullish(GetOpt(page, K_client_page))
        THEN ObjOf(<<Ent(K_label, TrimOf(Get(tab, K_label))),
                     Ent(K_page, ObjOf(<<Ent(K_rows, NormRows(Get(page, K_rows))),
                                         Ent(K_client_page, Get(page, K_client_page))>>))>>)
        ELSE ObjOf(<<Ent(K_label, TrimOf(Get(tab, K_label))),
                     Ent(K_page, ObjOf(<<Ent(K_rows, NormRows(GetOpt(page, K_rows))),
                                         Ent(K_keys, NormKeys(GetOpt(page, K_keys)))>>))>>)

\* normalizeProfile(profile): the normal form, or THROW for a TypeError
normalizeProfile(profile) ==
  IF Nullish(profile) THEN THROW
  ELSE
    LET tabs == Get(profile, K_tabs)
        out == IF IsArr(tabs) THEN [i \in DOMAIN tabs.a |-> normalizeTab(tabs.a[i])]
               ELSE <<THROW>>
    IN  ObjOf(<<Ent(K_id, TrimOf(Get(profile, K_id))),
                Ent(K_type, Str(S_Tabbed)),
                Ent(K_tabs, IF AnyThrow(out) THEN THROW ELSE Arr(out))>>)

(***************************************************************************)
(* src/src/lib/serializeProfile.ts                                         *)
(***************************************************************************)
PRINT_WIDTH == 80
INDENT == <<" ", " ">>

\* val === null || typeof val !== 'object'
isPrimitive(val) == val.t = "null" \/ TypeOf(val) # "object"

\* JSON.stringify(v) of a primitive, concatenated into a string
PrimText(v) == IF Omitted(v) THEN S_undefined ELSE PrimToJson(v)

RECURSIVE formatInline(_)
formatInline(val) ==
  IF isPrimitive(val) THEN PrimText(val)
  ELSE IF IsArr(val)
  THEN <<"[">> \o Join([i \in DOMAIN val.a |-> formatInline(val.a[i])], <<",", " ">>) \o <<"]">>
  ELSE JSONstringify(val)

Comma(i, n) == IF i < n THEN <<",">> ELSE <<>>

RECURSIVE format(_, _)
RECURSIVE formatObject(_, _)

\* the one-element-per-line form of an array (serializeProfile.ts lines 61, 65)
Exploded(a, depth) ==
  <<"[", "\n">>
    \o Join([i \in DOMAIN a |->
               Repeat(INDENT, depth + 1) \o format(a[i], depth + 1) \o Comma(i, Len(a))],
            <<"\n">>)
    \o <<"\n">> \o Repeat(INDENT, depth) \o <<"]">>

format(val, depth) ==
  IF isPrimitive(val) THEN PrimText(val)
  ELSE IF IsArr(val)
  THEN IF \E i \in DOMAIN val.a : ~isPrimitive(val.a[i])
       THEN Exploded(val.a, depth)
       ELSE LET compact == formatInline(val)
            IN  IF Len(compact) <= PRINT_WIDTH THEN compact ELSE Exploded(val.a, depth)
  ELSE <<"{", "\n">> \o formatObject(val, depth) \o <<"\n">> \o Repeat(INDENT, depth) \o <<"}">>

\* the line(s) of entry i of obj (the mapper of formatObject, lines 21-43)
formatEntry(obj, i, depth) ==
  LET v == obj.e[i].v
      prefix == Repeat(INDENT, depth + 1)
      keyStr == QuoteStr(obj.e[i].k) \o <<":", " ">>
      suffix == Comma(i, Len(obj.e))
      compact == formatInline(v)
  IN  IF isPrimitive(v) THEN prefix \o keyStr \o PrimText(v) \o suffix
      ELSE IF IsArr(v)
      THEN IF (\A j \in DOMAIN v.a : isPrimitive(v.a[j]))
                /\ Len(compact) <= PRINT_WIDTH - Len(keyStr) - Len(prefix)
           THEN prefix \o keyStr \o compact \o suffix
           ELSE prefix \o keyStr \o <<"[", "\n">>
                  \o Join([j \in DOMAIN v.a |->
                             Repeat(INDENT, depth + 2) \o format(v.a[j], depth + 2)
                               \o Comma(j, Len(v.a))],
                          <<"\n">>)
                  \o <<"\n">> \o prefix \o <<"]">> \o suffix
      ELSE prefix \o keyStr \o <<"{", "\n">> \o formatObject(v, depth + 1)
             \o <<"\n">> \o prefix \o <<"}">> \o suffix

formatObject(obj, depth) ==
  Join([i \in DOMAIN obj.e |-> formatEntry(obj, i, depth)], <<"\n">>)

RECURSIVE pageToJson(_)

\* faulty variant: keyToJson emitting every station_id that is not null
keyToJsonAnyStation(key) ==
  Obj(<<Ent(K_label, Get(key, K_label))>>
      \o (IF ~Nullish(Get(key, K_station_id))
          THEN <<Ent(K_station_id, Get(key, K_station_id))>> ELSE <<>>)
      \o (IF ~Nullish(Get(key, K_page))
          THEN <<Ent(K_page, pageToJson(Get(key, K_page)))>> ELSE <<>>))

keyToJson(key) ==
  Obj(<<Ent(K_label, Get(key, K_label))>>
      \o (IF ~Nullish(Get(key, K_station_id)) /\ Get(key, K_station_id) # Str(<<>>)
          THEN <<Ent(K_station_id, Get(key, K_station_id))>> ELSE <<>>)
      \o (IF ~Nullish(Get(key, K_page))
          THEN <<Ent(K_page, pageToJson(Get(key, K_page)))>> ELSE <<>>))

pageToJson(page) ==
  IF ~Nullish(Get(page, K_client_page))
  THEN Obj(<<Ent(K_rows, Get(page, K_rows)), Ent(K_client_page, Get(page, K_client_page))>>)
  ELSE LET keys == Coalesce(Get(page, K_keys), Arr(<<>>))
       IN  Obj(<<Ent(K_rows, Get(page, K_rows)),
                 Ent(K_keys, Arr([i \in DOMAIN keys.a |-> keyToJson(keys.a[i])]))>>)

tabToJson(tab) ==
  Obj(<<Ent(K_label, Get(tab, K_label)), Ent(K_page, pageToJson(Get(tab, K_page)))>>)

profileToJson(profile) ==
  Obj(<<Ent(K_id, Get(profile, K_id)),
        Ent(K_type, Get(profile, K_type)),
        Ent(K_tabs, Arr([i \in DOMAIN Get(profile, K_tabs).a |->
                           tabToJson(Get(profile, K_tabs).a[i])]))>>)

\* serializeProfile(profile)
serializeProfile(profile) == format(profileToJson(profile), 0) \o <<"\n">>

(***************************************************************************)
(* deepEqual of the round-trip test (src/unnamed/part_001 lines 22-39)     *)
(***************************************************************************)
RECURSIVE deepEqual(_, _)
deepEqual(a, b) ==
  IF Nullish(a) \/ Nullish(b) THEN a = b
  ELSE IF TypeOf(a) # TypeOf(b) THEN FALSE
  ELSE IF TypeOf(a) # "object" THEN a = b /\ a.t # "nan"
  ELSE IF IsArr(a) # IsArr(b) THEN FALSE
  ELSE IF IsArr(a)
  THEN Len(a.a) = Len(b.a) /\ \A i \in DOMAIN a.a : deepEqual(a.a[i], b.a[i])
  ELSE /\ {a.e[i].k : i \in DOMAIN a.e} = {b.e[i].k : i \in DOMAIN b.e}
       /\ \A i \in DOMAIN a.e : deepEqual(a.e[i].v, Get(b, a.e[i].k))

(***************************************************************************)
(* src/src/types.ts                                                        *)
(***************************************************************************)
S_NEW == <<"N", "E", "W">>
S_Tab == <<"T", "a", "b", " ">>

\* a fresh tab { label: [`Tab ${n}`], page: { rows: 4, keys: [] } }
NewTab(n) ==
  Obj(<<Ent(K_label, Arr(<<Str(S_Tab \o NatToStr(n))>>)),
        Ent(K_page, Obj(<<Ent(K_rows, IntV(4)), Ent(K_keys, Arr(<<>>))>>))>>)

createDefaultProfile ==
  Obj(<<Ent(K_id, Str(S_NEW)), Ent(K_type, Str(S_Tabbed)), Ent(K_tabs, Arr(<<NewTab(1)>>))>>)

(***************************************************************************)
(* Faulty variants of the history hook and of the loader.  No              *)
(* specification uses them; each property below is checked to fail when    *)
(* the definition it names is replaced by its variant.                     *)
(***************************************************************************)
\* undo that jumps to the first snapshot
undoToStart(h) == [h EXCEPT !.index = 0]

\* mutateProfile that keeps the snapshots after the cursor
mutateProfileKeep(h, next) ==
  [history |-> Append(h.history, next), index |-> Len(h.history)]

\* canUndo that only looks at the number of snapshots
canUndoAnywhere(h) == Len(h.history) > 1

\* redo that drops the snapshots behind the one it moves to
redoDroppingLater(h) ==
  IF h.index < Len(h.history) - 1
  THEN [history |-> SubSeq(h.history, 1, h.index + 2), index |-> h.index + 1]
  ELSE h

\* replaceProfile that starts the new history below the document
replaceProfileOnDefault(p) == [history |-> <<createDefaultProfile, p>>, index |-> 1]

\* a loader that answers a document failing validation with a new profile
LoadOutcomeLenient(text) ==
  LET data == JSONparse(text)
  IN  IF ~data.ok THEN [ok |-> FALSE, error |-> [kind |-> "SyntaxError"]]
      ELSE IF ~validateProfile(data.v).ok THEN [ok |-> TRUE, profile |-> createDefaultProfile]
      ELSE IF normalizeProfile(validateProfile(data.v).profile) = THROW
      THEN [ok |-> FALSE, error |-> [kind |-> "TypeError"]]
      ELSE [ok |-> TRUE, profile |-> normalizeProfile(validateProfile(data.v).profile)]

(***************************************************************************)
(* src/src/hooks/useProfileHistory.ts: the state is [history, index],      *)
(* index counted from 0 as in the code.                                    *)
(***************************************************************************)
InitialHistory(initial) == [history |-> <<initial>>, index |-> 0]

\* profile = historyState.history[historyState.index]
Current(h) == h.history[h.index + 1]

\* mutateProfile(updater), next = updater(current)
mutateProfile(h, next) ==
  LET truncated == SubSeq(h.history, 1, h.index + 1)
  IN  [history |-> Append(truncated, next), index |-> Len(truncated)]

replaceProfile(p) == [history |-> <<p>>, index |-> 0]

undo(h) == IF h.index > 0 THEN [h EXCEPT !.index = h.index - 1] ELSE h

redo(h) == IF h.index < Len(h.history) - 1 THEN [h EXCEPT !.index = h.index + 1] ELSE h

canUndo(h) == h.index > 0

canRedo(h) == h.index < Len(h.history) - 1

(***************************************************************************)
(* src/src/App.tsx: path helpers.  Indices count from 0.                   *)
(***************************************************************************)
\* a[i], undefined when i is no index of a
At(a, i) == IF i >= 0 /\ i < Len(a) THEN a[i + 1] ELSE Undef

Tabs(p) == Get(p, K_tabs).a

\* page.keys ?? []
KeysOf(page) == Coalesce(Get(page, K_keys), Arr(<<>>)).a

RECURSIVE descend(_, _)
descend(page, path) ==
  IF path = <<>> THEN page
  ELSE LET key == At(KeysOf(page), Head(path))
       IN  IF ~Truthy(GetOpt(key, K_page)) THEN Null
           ELSE descend(Get(key, K_page), Tail(path))

getPageAtPath(profile, tabIndex, path) ==
  LET tab == At(Tabs(profile), tabIndex)
  IN  IF ~Truthy(tab) THEN Null ELSE descend(Get(tab, K_page), path)

getKeysAtPath(profile, tabIndex, path) ==
  LET page == getPageAtPath(profile, tabIndex, path)
  IN  IF ~Nullish(GetOpt(page, K_client_page)) THEN <<>>
      ELSE Coalesce(GetOpt(page, K_keys), Arr(<<>>)).a

getRowsAtPath(profile, tabIndex, path) ==
  Coalesce(GetOpt(getPageAtPath(profile, tabIndex, path), K_rows), IntV(4))

(***************************************************************************)
(* The page transforms handed to mutatePageAtPath and the key updaters     *)
(* handed to updateKeyAtPath, as data: [op, ...].                          *)
(***************************************************************************)
\* faulty variant: the page rebuilt from rows and keys, without the spread
WithKeysOnly(page, ks) == Obj(<<Ent(K_rows, Get(page, K_rows)), Ent(K_keys, Arr(ks))>>)

\* { ...page, keys: ks }
WithKeys(page, ks) == Put(SpreadObj(page), K_keys, Arr(ks))

\* faulty variant: the selected indices removed one after the other from the
\* list as it shrinks
RECURSIVE FilterOutShifting(_, _)
FilterOutShifting(s, sel) ==
  IF sel = <<>> THEN [i \in DOMAIN s |-> <<i - 1, s[i]>>]
  ELSE FilterOutShifting(IF Head(sel) < Len(s) THEN RemoveAt(s, Head(sel)) ELSE s, Tail(sel))

\* the indices (from 0) of s that are not in the sequence sel
FilterOut(s, sel) == SelectSeq([i \in DOMAIN s |-> <<i - 1, s[i]>>],
                               LAMBDA x : x[1] \notin Range(sel))

Unpair(s) == [i \in DOMAIN s |-> s[i][2]]

\* nextKeys.splice(from, 1) then nextKeys.splice(to, 0, removed)
SpliceMove(keys, from, to) ==
  LET removed == At(keys, from)
      rest == IF from >= 0 /\ from < Len(keys) THEN RemoveAt(keys, from) ELSE keys
  IN  InsertAt(rest, to, removed)

\* [a[i], a[j]] = [a[j], a[i]] for indices of a
SwapAt(a, i, j) == [a EXCEPT ![i + 1] = a[j + 1], ![j + 1] = a[i + 1]]

\* mutate(page) of the App.tsx callers of mutatePageAtPath
ApplyPageMutation(m, page) ==
  CASE m.op = "setRows" -> Put(SpreadObj(page), K_rows, m.rows)
    [] m.op = "addKey" ->
         WithKeys(page, Append(KeysOf(page), Obj(<<Ent(K_label, Arr(<<>>))>>)))
    [] m.op = "removeKeys" -> WithKeys(page, Unpair(FilterOut(KeysOf(page), m.sel)))
    [] m.op = "moveKey" ->
         WithKeys(page, IF m.swap THEN SwapAt(KeysOf(page), m.from, m.to)
                        ELSE SpliceMove(KeysOf(page), m.from, m.to))
    [] m.op = "setKeys" -> WithKeys(page, m.keys)
    [] m.op = "swapKeys" -> WithKeys(page, SwapAt(KeysOf(page), m.a, m.b))
    [] m.op = "pasteKeys" ->
         WithKeys(page, Slice(KeysOf(page), 0, m.insertAt) \o m.keys
                        \o Slice(KeysOf(page), m.insertAt, Len(KeysOf(page))))

\* updater(key) of the callers of updateKeyAtPath
ApplyKeyUpdate(u, key) ==
  CASE u.op = "setLabel" -> Put(SpreadObj(key), K_label, Arr(u.label))
    [] u.op = "setStationId" ->
         Put(SpreadObj(key), K_station_id, IF u.value = <<>> THEN Undef ELSE Str(u.value))
    [] u.op = "removeSubpage" -> Put(SpreadObj(key), K_page, Undef)
    [] u.op = "addSubpage" ->
         Put(SpreadObj(key), K_page,
             Obj(<<Ent(K_rows, IntV(4)), Ent(K_keys, Arr(<<>>))>>))
    [] u.op = "clear" -> Obj(<<Ent(K_label, Arr(<<>>))>>)

\* faulty variant: the traversed key rebuilt from its subpage alone,
\* without the spread of the key
RECURSIVE applyPageNoSpread(_, _, _)
applyPageNoSpread(page, path, m) ==
  IF path = <<>> THEN ApplyPageMutation(m, page)
  ELSE LET keys == KeysOf(page)
           ki == Head(path)
       IN  IF ki >= 0 /\ ki < Len(keys) /\ Truthy(Get(keys[ki + 1], K_page))
           THEN WithKeys(page,
                         [keys EXCEPT ![ki + 1] =
                            Obj(<<Ent(K_page,
                                      applyPageNoSpread(Get(keys[ki + 1], K_page),
                                                        Tail(path), m))>>)])
           ELSE WithKeys(page, keys)

\* apply(page, pathIdx) of mutatePageAtPath, path the rest of the path
RECURSIVE applyPage(_, _, _)
applyPage(page, path, m) ==
  IF path = <<>> THEN ApplyPageMutation(m, page)
  ELSE LET keys == KeysOf(page)
           ki == Head(path)
       IN  IF ki >= 0 /\ ki < Len(keys) /\ Truthy(Get(keys[ki + 1], K_page))
           THEN WithKeys(page,
                         [keys EXCEPT ![ki + 1] =
                            Put(SpreadObj(keys[ki + 1]), K_page,
                                applyPage(Get(keys[ki + 1], K_page), Tail(path), m))])
           ELSE WithKeys(page, keys)

\* apply(page, pathIdx) of updateKeyAtPath
RECURSIVE applyKey(_, _, _, _)
applyKey(page, path, keyIndex, u) ==
  LET keys == KeysOf(page)
  IN  IF path = <<>>
      THEN WithKeys(page, IF keyIndex >= 0 /\ keyIndex < Len(keys)
                          THEN [keys EXCEPT ![keyIndex + 1] = ApplyKeyUpdate(u, keys[keyIndex + 1])]
                          ELSE keys)
      ELSE LET ki == Head(path)
           IN  IF ki >= 0 /\ ki < Len(keys) /\ Truthy(Get(keys[ki + 1], K_page))
               THEN WithKeys(page,
                             [keys EXCEPT ![ki + 1] =
                                Put(SpreadObj(keys[ki + 1]), K_page,
                                    applyKey(Get(keys[ki + 1], K_page), Tail(path), keyIndex, u))])
               ELSE WithKeys(page, keys)

\* { ...p, tabs: ts }
WithTabs(p, ts) == Put(p, K_tabs, Arr(ts))

\* the updater of mutatePageAtPath: the next document
mutatePageAtPath(p, tabIndex, path, m) ==
  IF ~Truthy(At(Tabs(p), tabIndex)) THEN p
  ELSE WithTabs(p, [i \in DOMAIN Tabs(p) |->
                      IF i - 1 = tabIndex
                      THEN Put(SpreadObj(Tabs(p)[i]), K_page,
                               applyPage(Get(Tabs(p)[i], K_page), path, m))
                      ELSE Tabs(p)[i]])

\* the updater of updateKeyAtPath: the next document
updateKeyAtPath(p, tabIndex, path, keyIndex, u) ==
  IF ~Truthy(At(Tabs(p), tabIndex)) THEN p
  ELSE WithTabs(p, [i \in DOMAIN Tabs(p) |->
                      IF i - 1 = tabIndex
                      THEN Put(SpreadObj(Tabs(p)[i]), K_page,
                               applyKey(Get(Tabs(p)[i], K_page), path, keyIndex, u))
                      ELSE Tabs(p)[i]])

(***************************************************************************)
(* State.  The editor (App.tsx): historyState is the hook's state,         *)
(* pendingRead the text of a file whose FileReader has not fired onload    *)
(* yet, keyClipboard the value of keyClipboardRef.current.                 *)
(* rt is the state of the round-trip script (src/unnamed/part_001).  *)
(* vacsStations is the state of the station loader (lib/vacsStations.ts):  *)
(* the module variable cached, the loads started and the promises that     *)
(* the calls of loadStations returned.                                     *)
(* mon and e2e observe the run: they record which handlers ran and are     *)
(* read by the properties only.                                            *)
(***************************************************************************)
VARIABLES historyState, selectedTabIndex, selectedKeyIndices, subpagePath,
          loadError, pendingRead, keyClipboard, rt, mon, e2e, vacsStations

appVars == <<historyState, selectedTabIndex, selectedKeyIndices, subpagePath,
             loadError, pendingRead, keyClipboard>>
vars == <<historyState, selectedTabIndex, selectedKeyIndices, subpagePath,
          loadError, pendingRead, keyClipboard, rt, mon, e2e, vacsStations>>

profile == Current(historyState)
currentPage == getPageAtPath(profile, selectedTabIndex, subpagePath)
currentKeys == getKeysAtPath(profile, selectedTabIndex, subpagePath)
currentRows == getRowsAtPath(profile, selectedTabIndex, subpagePath)
isClientPage == ~Nullish(GetOpt(currentPage, K_client_page))

\* Bounds of the model.
MaxHistory == 3
MaxHistoryH == 5
MaxTabs == 2
MaxKeys == 2
MaxHistoryP == 3
MaxKeysP == 4
MaxDepth == 1
MaxHistoryM == 2

NoFile == <<>>

\* the file contents offered to Load JSON
TextLOWW ==
  <<"{", "\"", "i", "d", "\"", ":", "\"", "L", "O", "W", "W", "\"", ",", "\"", "t", "y",
    "p", "e", "\"", ":", "\"", "T", "a", "b", "b", "e", "d", "\"", ",", "\"", "t", "a",
    "b", "s", "\"", ":", "[", "{", "\"", "l", "a", "b", "e", "l", "\"", ":", "[", "\"",
    "A", "P", "P", "\"", "]", ",", "\"", "p", "a", "g", "e", "\"", ":", "{", "\"", "r",
    "o", "w", "s", "\"", ":", "2", ",", "\"", "k", "e", "y", "s", "\"", ":", "[", "{",
    "\"", "l", "a", "b", "e", "l", "\"", ":", "[", "\"", "L", "O", "W", "W", "\"", ",",
    "\"", "A", "P", "P", "\"", "]", ",", "\"", "s", "t", "a", "t", "i", "o", "n", "_", "i",
    "d", "\"", ":", "\"", "L", "O", "W", "W", "_", "A", "P", "P", "\"", "}", "]", "}", "}",
    "]", "}">>

TextLegacy ==
  <<"{", "\"", "i", "d", "\"", ":", "\"", "L", "O", "W", "W", "\"", ",", "\"", "t", "y",
    "p", "e", "\"", ":", "\"", "T", "a", "b", "b", "e", "d", "\"", ",", "\"", "t", "a",
    "b", "s", "\"", ":", "[", "{", "\"", "l", "a", "b", "e", "l", "\"", ":", "\"", "A",
    "P", "P", "\"", ",", "\"", "p", "a", "g", "e", "\"", ":", "{", "\"", "r", "o", "w",
    "s", "\"", ":", "2", ",", "\"", "k", "e", "y", "s", "\"", ":", "[", "{", "\"", "l",
    "a", "b", "e", "l", "\"", ":", "[", "\"", "L", "O", "W", "W", "\"", ",", "\"", "A",
    "P", "P", "\"", "]", ",", "\"", "s", "t", "a", "t", "i", "o", "n", "_", "i", "d", "\"",
    ":", "\"", "L", "O", "W", "W", "_", "A", "P", "P", "\"", "}", "]", "}", "}", "]", "}">>

TextNullKey ==
  <<"{", "\"", "i", "d", "\"", ":", "\"", "X", "\"", ",", "\"", "t", "y", "p", "e", "\"",
    ":", "\"", "T", "a", "b", "b", "e", "d", "\"", ",", "\"", "t", "a", "b", "s", "\"",
    ":", "[", "{", "\"", "l", "a", "b", "e", "l", "\"", ":", "\"", "A", "\"", ",", "\"",
    "p", "a", "g", "e", "\"", ":", "{", "\"", "r", "o", "w", "s", "\"", ":", "1", ",",
    "\"", "k", "e", "y", "s", "\"", ":", "[", "n", "u", "l", "l", "]", "}", "}", "]", "}">>

TextTruncated == SubSeq(TextLegacy, 1, 20)

LoadTexts == {TextLOWW, TextLegacy, TextNullKey, TextTruncated}

\* files with subpages and a client page, offered to the page editor
TextPages ==
  <<"{", "\"", "i", "d", "\"", ":", "\"", "P", "\"", ",", "\"", "t", "y", "p", "e", "\"",
    ":", "\"", "T", "a", "b", "b", "e", "d", "\"", ",", "\"", "t", "a", "b", "s", "\"",
    ":", "[", "{", "\"", "l", "a", "b", "e", "l", "\"", ":", "\"", "T", "\"", ",", "\"",
    "p", "a", "g", "e", "\"", ":", "{", "\"", "r", "o", "w", "s", "\"", ":", "2", ".",
    "9", ",", "\"", "k", "e", "y", "s", "\"", ":", "[", "{", "\"", "l", "a", "b", "e",
    "l", "\"", ":", "[", "\"", "A", "\"", ",", "\"", "B", "\"", ",", "\"", "C", "\"",
    ",", "\"", "D", "\"", "]", ",", "\"", "s", "t", "a", "t", "i", "o", "n", "_", "i",
    "d", "\"", ":", "\"", "S", "\"", "}", ",", "{", "\"", "l", "a", "b", "e", "l", "\"",
    ":", "[", "\"", "N", "\"", "]", ",", "\"", "p", "a", "g", "e", "\"", ":", "{", "\"",
    "r", "o", "w", "s", "\"", ":", "1", ",", "\"", "k", "e", "y", "s", "\"", ":", "[",
    "{", "\"", "l", "a", "b", "e", "l", "\"", ":", "[", "\"", "M", "\"", "]", "}", "]",
    "}", "}", "]", "}", "}", ",", "{", "\"", "l", "a", "b", "e", "l", "\"", ":", "\"",
    "C", "\"", ",", "\"", "p", "a", "g", "e", "\"", ":", "{", "\"", "r", "o", "w", "s",
    "\"", ":", "3", ",", "\"", "c", "l", "i", "e", "n", "t", "_", "p", "a", "g", "e",
    "\"", ":", "{", "}", "}", "}", "]", "}">>

TextNestedRows ==
  <<"{", "\"", "i", "d", "\"", ":", "\"", "N", "\"", ",", "\"", "t", "y", "p", "e", "\"",
    ":", "\"", "T", "a", "b", "b", "e", "d", "\"", ",", "\"", "t", "a", "b", "s", "\"",
    ":", "[", "{", "\"", "l", "a", "b", "e", "l", "\"", ":", "\"", "T", "\"", ",", "\"",
    "p", "a", "g", "e", "\"", ":", "{", "\"", "r", "o", "w", "s", "\"", ":", "1", ",",
    "\"", "k", "e", "y", "s", "\"", ":", "[", "{", "\"", "l", "a", "b", "e", "l", "\"",
    ":", "[", "]", ",", "\"", "p", "a", "g", "e", "\"", ":", "{", "\"", "r", "o", "w",
    "s", "\"", ":", "\"", "x", "\"", "}", "}", "]", "}", "}", "]", "}">>

PageTexts == {TextPages, TextNestedRows}

\* a file with one page of three keys, offered to the clipboard operations
TextKeys ==
  <<"{", "\"", "i", "d", "\"", ":", "\"", "K", "\"", ",", "\"", "t", "y", "p", "e", "\"",
    ":", "\"", "T", "a", "b", "b", "e", "d", "\"", ",", "\"", "t", "a", "b", "s", "\"",
    ":", "[", "{", "\"", "l", "a", "b", "e", "l", "\"", ":", "\"", "T", "\"", ",", "\"",
    "p", "a", "g", "e", "\"", ":", "{", "\"", "r", "o", "w", "s", "\"", ":", "2", ",",
    "\"", "k", "e", "y", "s", "\"", ":", "[", "{", "\"", "l", "a", "b", "e", "l", "\"",
    ":", "[", "\"", "A", "\"", "]", "}", ",", "{", "\"", "l", "a", "b", "e", "l", "\"",
    ":", "[", "\"", "B", "\"", "]", "}", ",", "{", "\"", "l", "a", "b", "e", "l", "\"",
    ":", "[", "\"", "C", "\"", "]", "}", "]", "}", "}", "]", "}">>

\* a file with one page of five keys in a grid of two rows, offered to the
\* move operations
TextGrid ==
  <<"{", "\"", "i", "d", "\"", ":", "\"", "M", "\"", ",", "\"", "t", "y", "p", "e",
    "\"", ":", "\"", "T", "a", "b", "b", "e", "d", "\"", ",", "\"", "t", "a", "b", "s",
    "\"", ":", "[", "{", "\"", "l", "a", "b", "e", "l", "\"", ":", "\"", "T", "\"",
    ",", "\"", "p", "a", "g", "e", "\"", ":", "{", "\"", "r", "o", "w", "s", "\"", ":",
    "2", ",", "\"", "k", "e", "y", "s", "\"", ":", "[", "{", "\"", "l", "a", "b", "e",
    "l", "\"", ":", "[", "\"", "A", "\"", "]", "}", ",", "{", "\"", "l", "a", "b", "e",
    "l", "\"", ":", "[", "\"", "B", "\"", "]", "}", ",", "{", "\"", "l", "a", "b", "e",
    "l", "\"", ":", "[", "\"", "C", "\"", "]", "}", ",", "{", "\"", "l", "a", "b", "e",
    "l", "\"", ":", "[", "\"", "D", "\"", "]", "}", ",", "{", "\"", "l", "a", "b", "e",
    "l", "\"", ":", "[", "\"", "E", "\"", "]", "}", "]", "}", "}", "]", "}">>

\* a file whose one key holds a subpage of three keys with rows "x", offered
\* to the move operations
TextRowsX ==
  <<"{", "\"", "i", "d", "\"", ":", "\"", "R", "\"", ",", "\"", "t", "y", "p", "e",
    "\"", ":", "\"", "T", "a", "b", "b", "e", "d", "\"", ",", "\"", "t", "a", "b",
    "s", "\"", ":", "[", "{", "\"", "l", "a", "b", "e", "l", "\"", ":", "\"", "T",
    "\"", ",", "\"", "p", "a", "g", "e", "\"", ":", "{", "\"", "r", "o", "w", "s",
    "\"", ":", "1", ",", "\"", "k", "e", "y", "s", "\"", ":", "[", "{", "\"", "l",
    "a", "b", "e", "l", "\"", ":", "[", "\"", "S", "\"", "]", ",", "\"", "p", "a",
    "g", "e", "\"", ":", "{", "\"", "r", "o", "w", "s", "\"", ":", "\"", "x", "\"",
    ",", "\"", "k", "e", "y", "s", "\"", ":", "[", "{", "\"", "l", "a", "b", "e",
    "l", "\"", ":", "[", "\"", "A", "\"", "]", "}", ",", "{", "\"", "l", "a", "b",
    "e", "l", "\"", ":", "[", "\"", "B", "\"", "]", "}", ",", "{", "\"", "l", "a",
    "b", "e", "l", "\"", ":", "[", "\"", "C", "\"", "]", "}", "]", "}", "}", "]",
    "}", "}", "]", "}">>

\* a file with the station_id [] on one key, "LOWW" on another and "" on a
\* key of a subpage, offered to the Station ID input
TextStationIds ==
  <<"{", "\"", "i", "d", "\"", ":", "\"", "S", "\"", ",", "\"", "t", "y", "p", "e",
    "\"", ":", "\"", "T", "a", "b", "b", "e", "d", "\"", ",", "\"", "t", "a", "b",
    "s", "\"", ":", "[", "{", "\"", "l", "a", "b", "e", "l", "\"", ":", "\"", "T",
    "\"", ",", "\"", "p", "a", "g", "e", "\"", ":", "{", "\"", "r", "o", "w", "s",
    "\"", ":", "2", ",", "\"", "k", "e", "y", "s", "\"", ":", "[", "{", "\"", "l",
    "a", "b", "e", "l", "\"", ":", "[", "\"", "A", "\"", "]", ",", "\"", "s", "t",
    "a", "t", "i", "o", "n", "_", "i", "d", "\"", ":", "[", "]", "}", ",", "{", "\"",
    "l", "a", "b", "e", "l", "\"", ":", "[", "\"", "B", "\"", "]", ",", "\"", "s",
    "t", "a", "t", "i", "o", "n", "_", "i", "d", "\"", ":", "\"", "L", "O", "W", "W",
    "\"", ",", "\"", "p", "a", "g", "e", "\"", ":", "{", "\"", "r", "o", "w", "s",
    "\"", ":", "1", ",", "\"", "k", "e", "y", "s", "\"", ":", "[", "{", "\"", "l",
    "a", "b", "e", "l", "\"", ":", "[", "\"", "C", "\"", "]", ",", "\"", "s", "t",
    "a", "t", "i", "o", "n", "_", "i", "d", "\"", ":", "\"", "\"", "}", "]", "}",
    "}", "]", "}", "}", "]", "}">>

\* the values typed into the text inputs
S_X == <<"X">>
LabelEdits == {<<0, <<>>>>, <<1, S_X>>, <<2, S_X>>}
EditorIds == {<<"B", " ">>}
RowsInputs == {<<"3">>, <<"0">>, <<"-", "3">>, <<>>, <<"2", ".", "9">>}
StationEdits == {<<>>, <<"Z">>}
TypedIds == EditorIds \cup {<<"A">>}

(***************************************************************************)
(* The effects that run after every render (App.tsx lines 92-101).         *)
(***************************************************************************)
ClampTab(p, t) == IF Len(Tabs(p)) > 0 /\ t >= Len(Tabs(p)) THEN Len(Tabs(p)) - 1 ELSE t

\* the selection left as it was
FilterSelectionKeepsAll(p, t, path, sel) == sel

FilterSelection(p, t, path, sel) ==
  SelectSeq(sel, LAMBDA i : i < Len(getKeysAtPath(p, t, path)))

\* the state after a handler set (h, t, sel, path) and the effects settled
Render(h, t, sel, path) ==
  /\ historyState' = h
  /\ selectedTabIndex' = ClampTab(Current(h), t)
  /\ subpagePath' = path
  /\ selectedKeyIndices' = FilterSelection(Current(h), ClampTab(Current(h), t), path, sel)

Room(n) == historyState.index + 2 <= n

(***************************************************************************)
(* Handlers of App.tsx.                                                    *)
(***************************************************************************)
SetProfileId(id) ==
  /\ Render(mutateProfile(historyState, Put(profile, K_id, Str(Trim(id)))),
            selectedTabIndex, selectedKeyIndices, subpagePath)
  /\ UNCHANGED <<loadError, pendingRead>>

\* [...label]: the elements of an array, the characters of a string
SpreadArr(v) == IF IsStr(v) THEN [i \in DOMAIN v.s |-> Str(<<v.s[i]>>)] ELSE v.a

\* the label with line lineIndex set to value, at most 3 lines
\* (App.tsx lines 118-121, KeyEditor.tsx lines 95-98)
LabelWithLine(label, lineIndex, value) ==
  LET padded == label \o [i \in 1..(lineIndex + 1 - Len(label)) |-> Str(<<>>)]
  IN  Slice([padded EXCEPT ![lineIndex + 1] = Str(value)], 0, 3)

setTabLabelLine(p, tabIndex, lineIndex, value) ==
  WithTabs(p, [i \in DOMAIN Tabs(p) |->
                 IF i - 1 # tabIndex THEN Tabs(p)[i]
                 ELSE Put(Tabs(p)[i], K_label,
                          Arr(LabelWithLine(SpreadArr(Get(Tabs(p)[i], K_label)),
                                            lineIndex, value)))])

SetTabLabelLine(lineIndex, value) ==
  /\ Render(mutateProfile(historyState,
                          setTabLabelLine(profile, selectedTabIndex, lineIndex, value)),
            selectedTabIndex, selectedKeyIndices, subpagePath)
  /\ UNCHANGED <<loadError, pendingRead>>

AddTab ==
  /\ Len(Tabs(profile)) < MaxTabs
  /\ Render(mutateProfile(historyState,
                          WithTabs(profile, Append(Tabs(profile),
                                                   NewTab(Len(Tabs(profile)) + 1)))),
            Len(Tabs(profile)), <<>>, <<>>)
  /\ UNCHANGED <<loadError, pendingRead>>

DuplicateTab ==
  /\ Len(Tabs(profile)) < MaxTabs
  /\ Truthy(At(Tabs(profile), selectedTabIndex))
  /\ LET dup == JSONparse(JSONstringify(At(Tabs(profile), selectedTabIndex))).v
     IN  Render(mutateProfile(historyState,
                              WithTabs(profile,
                                       InsertAt(Tabs(profile), selectedTabIndex + 1, dup))),
                selectedTabIndex + 1, <<>>, <<>>)
  /\ UNCHANGED <<loadError, pendingRead>>

\* faulty variant: removeTab without the refusal at one tab
RemoveTabAny ==
  /\ Render(mutateProfile(historyState,
                          WithTabs(profile, RemoveAt(Tabs(profile), selectedTabIndex))),
            IF selectedTabIndex - 1 > 0 THEN selectedTabIndex - 1 ELSE 0, <<>>, <<>>)
  /\ UNCHANGED <<loadError, pendingRead>>

RemoveTab ==
  /\ ~(Len(Tabs(profile)) <= 1)
  /\ Render(mutateProfile(historyState,
                          WithTabs(profile, RemoveAt(Tabs(profile), selectedTabIndex))),
            IF selectedTabIndex - 1 > 0 THEN selectedTabIndex - 1 ELSE 0, <<>>, <<>>)
  /\ UNCHANGED <<loadError, pendingRead>>

\* reorderTabs(from, to) of a drag from tab `from` onto another tab `to`
MoveTab(from, to) ==
  /\ from # to
  /\ ~(to < 0 \/ to >= Len(Tabs(profile)))
  /\ Render(mutateProfile(historyState,
                          WithTabs(profile, SpliceMove(Tabs(profile), from, to))),
            to, selectedKeyIndices, subpagePath)
  /\ UNCHANGED <<loadError, pendingRead>>

\* onSelectTab = setSelectedTabIndex
SelectTab(i) ==
  /\ i # selectedTabIndex
  /\ Render(historyState, i, selectedKeyIndices, subpagePath)
  /\ UNCHANGED <<loadError, pendingRead>>

AddKey ==
  /\ ~isClientPage
  /\ Len(currentKeys) < MaxKeys
  /\ Render(mutateProfile(historyState,
                          mutatePageAtPath(profile, selectedTabIndex, subpagePath,
                                           [op |-> "addKey"])),
            selectedTabIndex, <<Len(currentKeys)>>, subpagePath)
  /\ UNCHANGED <<loadError, pendingRead>>

RemoveKey ==
  /\ ~(selectedKeyIndices = <<>>)
  /\ Render(mutateProfile(historyState,
                          mutatePageAtPath(profile, selectedTabIndex, subpagePath,
                                           [op |-> "removeKeys", sel |-> selectedKeyIndices])),
            selectedTabIndex, <<>>, subpagePath)
  /\ UNCHANGED <<loadError, pendingRead>>

\* moveKey(from, to, swap)
MoveKey(from, to, swap) ==
  /\ ~(to < 0 \/ (IF swap THEN to >= Len(currentKeys) ELSE to > Len(currentKeys)))
  /\ Render(mutateProfile(historyState,
                          mutatePageAtPath(profile, selectedTabIndex, subpagePath,
                                           [op |-> "moveKey", from |-> from, to |-> to,
                                            swap |-> swap])),
            selectedTabIndex, <<to>>, subpagePath)
  /\ UNCHANGED <<loadError, pendingRead>>

\* reorderKeys(from, to) of a drag from key `from` onto another key `to`
ReorderKeys(from, to) == from # to /\ MoveKey(from, to, FALSE)

\* [...prev, index].sort((a, b) => a - b)
RECURSIVE InsertSorted(_, _)
InsertSorted(s, x) ==
  IF s = <<>> THEN <<x>>
  ELSE IF x < Head(s) THEN <<x>> \o s
  ELSE <<Head(s)>> \o InsertSorted(Tail(s), x)

\* faulty variant: handleSelectKey taking the last selected index as anchor
handleSelectKeyLastAnchor(sel, index, addToSelection, rangeSelect) ==
  IF rangeSelect /\ Len(sel) > 0
  THEN LET anchor == sel[Len(sel)]
           start == IF anchor < index THEN anchor ELSE index
           end == IF anchor > index THEN anchor ELSE index
       IN  [i \in 1..(end - start + 1) |-> start + i - 1]
  ELSE IF addToSelection
  THEN IF index \in Range(sel) THEN SelectSeq(sel, LAMBDA i : i # index)
       ELSE InsertSorted(sel, index)
  ELSE <<index>>

handleSelectKey(sel, index, addToSelection, rangeSelect) ==
  IF rangeSelect /\ Len(sel) > 0
  THEN LET anchor == sel[1]
           start == IF anchor < index THEN anchor ELSE index
           end == IF anchor > index THEN anchor ELSE index
       IN  [i \in 1..(end - start + 1) |-> start + i - 1]
  ELSE IF addToSelection
  THEN IF index \in Range(sel) THEN SelectSeq(sel, LAMBDA i : i # index)
       ELSE InsertSorted(sel, index)
  ELSE <<index>>

HandleSelectKey(index, addToSelection, rangeSelect) ==
  /\ Render(historyState, selectedTabIndex,
            handleSelectKey(selectedKeyIndices, index, addToSelection, rangeSelect),
            subpagePath)
  /\ UNCHANGED <<loadError, pendingRead>>

\* KeyEditor setLabelLine(index, value) on the primary selected key
SetKeyLabelLine(lineIndex, value) ==
  /\ selectedKeyIndices # <<>>
  /\ ~Nullish(At(currentKeys, selectedKeyIndices[1]))
  /\ LET keyData == At(currentKeys, selectedKeyIndices[1])
         label == SpreadArr(Coalesce(Get(keyData, K_label), Arr(<<>>)))
     IN  Render(mutateProfile(historyState,
                              updateKeyAtPath(profile, selectedTabIndex, subpagePath,
                                              selectedKeyIndices[1],
                                              [op |-> "setLabel",
                                               label |-> LabelWithLine(label, lineIndex, value)])),
                selectedTabIndex, selectedKeyIndices, subpagePath)
  /\ UNCHANGED <<loadError, pendingRead>>

\* KeyEditor onStationIdChange(value) on the primary selected key
SetStationId(value) ==
  /\ selectedKeyIndices # <<>>
  /\ ~Nullish(At(currentKeys, selectedKeyIndices[1]))
  /\ Render(mutateProfile(historyState,
                          updateKeyAtPath(profile, selectedTabIndex, subpagePath,
                                          selectedKeyIndices[1],
                                          [op |-> "setStationId", value |-> value])),
            selectedTabIndex, selectedKeyIndices, subpagePath)
  /\ UNCHANGED <<loadError, pendingRead>>

\* KeyEditor's Add subpage button, shown for a selected key without a page
AddSubpage ==
  /\ selectedKeyIndices # <<>>
  /\ ~Nullish(At(currentKeys, selectedKeyIndices[1]))
  /\ Nullish(Get(At(currentKeys, selectedKeyIndices[1]), K_page))
  /\ Render(mutateProfile(historyState,
                          updateKeyAtPath(profile, selectedTabIndex, subpagePath,
                                          selectedKeyIndices[1], [op |-> "addSubpage"])),
            selectedTabIndex, selectedKeyIndices, subpagePath)
  /\ UNCHANGED <<loadError, pendingRead>>

RECURSIVE LeadingDigits(_)
LeadingDigits(s) ==
  IF s # <<>> /\ IsDigit(Head(s)) THEN <<Head(s)>> \o LeadingDigits(Tail(s)) ELSE <<>>

\* parseInt(text, 10): the integer the text starts with, NaN when there is none
parseInt(text) ==
  LET t == TrimLeft(text)
      signed == t # <<>> /\ t[1] \in {"-", "+"}
      ds == LeadingDigits(IF signed THEN Tail(t) ELSE t)
  IN  IF ds = <<>> THEN NaN
      ELSE IntV(IF signed /\ t[1] = "-" THEN 0 - DigitsToNat(ds) ELSE DigitsToNat(ds))

\* the Rows input's onChange: setCurrentPageRows(parseInt(value, 10) || 1)
SetCurrentPageRows(text) ==
  /\ LET rows == IF Truthy(parseInt(text)) THEN parseInt(text) ELSE IntV(1)
         n == MathMax1(MathFloor(rows))
     IN  Render(mutateProfile(historyState,
                              mutatePageAtPath(profile, selectedTabIndex, subpagePath,
                                               [op |-> "setRows", rows |-> n])),
                selectedTabIndex, selectedKeyIndices, subpagePath)
  /\ UNCHANGED <<loadError, pendingRead>>

goToSubpage(keyIndex) ==
  Render(historyState, selectedTabIndex, <<>>, Append(subpagePath, keyIndex))

handleDoubleClickKey(index) ==
  IF ~Nullish(GetOpt(At(currentKeys, index), K_page))
  THEN goToSubpage(index)
  ELSE Render(historyState, selectedTabIndex, <<index>>, subpagePath)

HandleDoubleClickKey(index) ==
  /\ handleDoubleClickKey(index)
  /\ UNCHANGED <<loadError, pendingRead>>

\* goBackToPath(path) of a breadcrumb button: an ancestor of the current page
GoBackToPath(path) ==
  /\ Render(historyState, selectedTabIndex, <<>>, path)
  /\ UNCHANGED <<loadError, pendingRead>>

\* selectedKeyIndices.sort((a, b) => a - b): sorts the array in place
RECURSIVE SortAsc(_)
SortAsc(s) == IF s = <<>> THEN <<>> ELSE InsertSorted(SortAsc(Tail(s)), Head(s))

\* selectedKeyIndices.sort(...).map((i) => currentKeys[i]).filter(Boolean)
SelectedKeys(keys, sel) ==
  SelectSeq([i \in DOMAIN sel |-> At(keys, SortAsc(sel)[i])], LAMBDA k : Truthy(k))

\* { keys, cut }, the value of keyClipboardRef.current
Clip(keys, cut) == [t |-> "object", keys |-> keys, cut |-> cut]

\* copyKeys, from the Copy button or Ctrl+C, both offered with keys selected
CopyKeys ==
  /\ ~(selectedKeyIndices = <<>>)
  /\ keyClipboard' =
       IF SelectedKeys(currentKeys, selectedKeyIndices) # <<>>
       THEN Clip(JsonClone(Arr(SelectedKeys(currentKeys, selectedKeyIndices))).a, FALSE)
       ELSE keyClipboard
  /\ selectedKeyIndices' = SortAsc(selectedKeyIndices)
  /\ UNCHANGED <<historyState, selectedTabIndex, subpagePath, loadError, pendingRead>>

\* cutKeys, from the Cut button or Ctrl+X
CutKeys ==
  /\ ~(selectedKeyIndices = <<>>)
  /\ IF SelectedKeys(currentKeys, selectedKeyIndices) # <<>>
     THEN /\ keyClipboard' =
               Clip(JsonClone(Arr(SelectedKeys(currentKeys, selectedKeyIndices))).a, TRUE)
          /\ Render(mutateProfile(historyState,
                                  mutatePageAtPath(profile, selectedTabIndex, subpagePath,
                                                   [op |-> "removeKeys",
                                                    sel |-> selectedKeyIndices])),
                    selectedTabIndex, <<>>, subpagePath)
     ELSE /\ selectedKeyIndices' = SortAsc(selectedKeyIndices)
          /\ UNCHANGED <<keyClipboard, historyState, selectedTabIndex, subpagePath>>
  /\ UNCHANGED <<loadError, pendingRead>>

\* Math.max(...s) of a non-empty sequence of numbers
MaxOf(s) == CHOOSE x \in Range(s) : \A y \in Range(s) : y <= x

\* faulty variant: pasteKeys that leaves a cut clipboard filled
PasteKeysKeepClip ==
  /\ ~(selectedKeyIndices = <<>>)
  /\ IF (IF Nullish(keyClipboard) THEN TRUE ELSE keyClipboard.keys = <<>>)
     THEN UNCHANGED <<keyClipboard, historyState, selectedTabIndex, selectedKeyIndices,
                      subpagePath>>
     ELSE /\ Render(mutateProfile(historyState,
                                  mutatePageAtPath(profile, selectedTabIndex, subpagePath,
                                                   [op |-> "pasteKeys",
                                                    insertAt |-> MaxOf(selectedKeyIndices) + 1,
                                                    keys |-> keyClipboard.keys])),
                    selectedTabIndex,
                    [i \in DOMAIN keyClipboard.keys |-> MaxOf(selectedKeyIndices) + i],
                    subpagePath)
          /\ UNCHANGED keyClipboard
  /\ UNCHANGED <<loadError, pendingRead>>

\* pasteKeys, from the Paste button or Ctrl+V, both offered with keys selected
PasteKeys ==
  /\ ~(selectedKeyIndices = <<>>)
  /\ IF (IF Nullish(keyClipboard) THEN TRUE ELSE keyClipboard.keys = <<>>)
     THEN UNCHANGED <<keyClipboard, historyState, selectedTabIndex, selectedKeyIndices,
                      subpagePath>>
     ELSE LET insertAt == IF Len(selectedKeyIndices) > 0
                          THEN MaxOf(selectedKeyIndices) + 1
                          ELSE Len(currentKeys)
          IN  /\ Render(mutateProfile(historyState,
                                      mutatePageAtPath(profile, selectedTabIndex, subpagePath,
                                                       [op |-> "pasteKeys",
                                                        insertAt |-> insertAt,
                                                        keys |-> keyClipboard.keys])),
                        selectedTabIndex,
                        [i \in DOMAIN keyClipboard.keys |-> insertAt + i - 1],
                        subpagePath)
              /\ keyClipboard' = IF keyClipboard.cut THEN Null ELSE keyClipboard
  /\ UNCHANGED <<loadError, pendingRead>>

\* the early return of moveKey
moveKeyReturns(to, swap) ==
  to < 0 \/ (IF swap THEN to >= Len(currentKeys) ELSE to > Len(currentKeys))

\* a handler that returns before it sets anything
Stay == UNCHANGED <<historyState, selectedTabIndex, selectedKeyIndices, subpagePath,
                    loadError, pendingRead>>

\* swapSelectedKeys, from the Swap button, offered with two keys selected
SwapSelectedKeys ==
  /\ Len(selectedKeyIndices) = 2
  /\ ~isClientPage
  /\ Render(mutateProfile(historyState,
                          mutatePageAtPath(profile, selectedTabIndex, subpagePath,
                                           [op |-> "swapKeys",
                                            a |-> SortAsc(selectedKeyIndices)[1],
                                            b |-> SortAsc(selectedKeyIndices)[2]])),
            selectedTabIndex, selectedKeyIndices, subpagePath)
  /\ UNCHANGED <<loadError, pendingRead>>

\* Math.min(...s) of a non-empty sequence of numbers
MinOf(s) == CHOOSE x \in Range(s) : \A y \in Range(s) : x <= y

\* [...s].sort((a, b) => b - a)
SortDesc(s) == [i \in DOMAIN s |-> SortAsc(s)[Len(s) + 1 - i]]

\* faulty variant: the loop always run from the smallest index upwards
RECURSIVE SwapEachAscending(_, _, _)
SwapEachAscending(keys, order, d) ==
  IF order = <<>> THEN keys
  ELSE SwapEachAscending(SwapAt(keys, MinOf(order), MinOf(order) + d),
                         SelectSeq(order, LAMBDA x : x # MinOf(order)), d)

\* faulty variant: only the first key of the loop is swapped
SwapEachOnce(keys, order, d) ==
  IF order = <<>> THEN keys ELSE SwapAt(keys, Head(order), Head(order) + d)

\* for (const i of order) [keys[i], keys[i + d]] = [keys[i + d], keys[i]]
RECURSIVE SwapEach(_, _, _)
SwapEach(keys, order, d) ==
  IF order = <<>> THEN keys
  ELSE SwapEach(SwapAt(keys, Head(order), Head(order) + d), Tail(order), d)

\* faulty variant: a snapshot after the first swap and one after the last
MoveBlockStepwise(order, d) ==
  /\ Render(mutateProfile(
              mutateProfile(historyState,
                            mutatePageAtPath(profile, selectedTabIndex, subpagePath,
                                             [op |-> "setKeys",
                                              keys |-> SwapEach(currentKeys, <<Head(order)>>, d)])),
              mutatePageAtPath(profile, selectedTabIndex, subpagePath,
                               [op |-> "setKeys",
                                keys |-> SwapEach(currentKeys, order, d)])),
            selectedTabIndex,
            [i \in DOMAIN order |-> SortAsc(order)[i] + d],
            subpagePath)
  /\ UNCHANGED <<loadError, pendingRead>>

\* the multi-selection branch of moveSelectedKeys: the keys after the swaps
\* replace the keys of the page and the selection moves by d
MoveBlock(order, d) ==
  /\ Render(mutateProfile(historyState,
                          mutatePageAtPath(profile, selectedTabIndex, subpagePath,
                                           [op |-> "setKeys",
                                            keys |-> SwapEach(currentKeys, order, d)])),
            selectedTabIndex,
            [i \in DOMAIN order |-> SortAsc(order)[i] + d],
            subpagePath)
  /\ UNCHANGED <<loadError, pendingRead>>

\* the call moveKey(from, to, swap) inside moveSelectedKeys
MoveOne(from, to, swap) == IF moveKeyReturns(to, swap) THEN Stay ELSE MoveKey(from, to, swap)

\* the swaps of the loop when i - rows is NaN: keys[i] takes what the
\* property keys[NaN] holds (undefined at first) and leaves its key there
RECURSIVE SwapEachWithNaN(_, _, _)
SwapEachWithNaN(keys, order, held) ==
  IF order = <<>> THEN keys
  ELSE SwapEachWithNaN([keys EXCEPT ![Head(order) + 1] = held], Tail(order),
                       keys[Head(order) + 1])

\* left and right on a page whose rows is NaN: no comparison with NaN
\* holds, so neither moveSelectedKeys nor moveKey returns early; the
\* selection is set to NaN, which the selection filter drops
MoveByNaN(order) ==
  /\ Render(mutateProfile(historyState,
                          mutatePageAtPath(profile, selectedTabIndex, subpagePath,
                                           [op |-> "setKeys",
                                            keys |-> SwapEachWithNaN(currentKeys, order, Undef)])),
            selectedTabIndex, <<>>, subpagePath)
  /\ UNCHANGED <<loadError, pendingRead>>

\* moveSelectedKeys(direction), from the arrow keys and the move pad, both
\* offered with keys selected on a page that is no client page.  rows is a
\* number or, on a page loaded with a rows that is no number, NaN.
MoveSelectedKeys(direction) ==
  /\ ~(selectedKeyIndices = <<>>)
  /\ ~isClientPage
  /\ IF currentRows = NaN /\ direction \in {"left", "right"}
     THEN MoveByNaN(IF direction = "left" THEN SortAsc(selectedKeyIndices)
                    ELSE SortDesc(selectedKeyIndices))
     ELSE
     \E sorted \in {SortAsc(selectedKeyIndices)},
        rows \in {IF IsNum(currentRows) THEN currentRows.n10 \div 10 ELSE 0} :
       CASE direction = "left" ->
              IF MinOf(sorted) < rows THEN Stay
              ELSE IF Len(sorted) = 1 THEN MoveOne(sorted[1], sorted[1] - rows, TRUE)
              ELSE MoveBlock(sorted, -rows)
         [] direction = "right" ->
              IF MaxOf(sorted) + rows >= Len(currentKeys) THEN Stay
              ELSE IF Len(sorted) = 1 THEN MoveOne(sorted[1], sorted[1] + rows, TRUE)
              ELSE MoveBlock(SortDesc(sorted), rows)
         [] direction = "up" ->
              IF Len(sorted) = 1
              THEN IF sorted[1] > 0 THEN MoveOne(sorted[1], sorted[1] - 1, FALSE) ELSE Stay
              ELSE IF sorted[1] > 0 THEN MoveBlock(sorted, -1) ELSE Stay
         [] direction = "down" ->
              IF Len(sorted) = 1
              THEN IF sorted[1] < Len(currentKeys) - 1
                   THEN MoveOne(sorted[1], sorted[1] + 1, FALSE) ELSE Stay
              ELSE IF sorted[Len(sorted)] < Len(currentKeys) - 1
                   THEN MoveBlock(SortDesc(sorted), 1) ELSE Stay

\* Undo that restores no selection at all
UndoClearingSelection ==
  /\ Render(undo(historyState), selectedTabIndex, <<>>, subpagePath)
  /\ UNCHANGED <<loadError, pendingRead>>

Undo ==
  /\ Render(undo(historyState), selectedTabIndex, selectedKeyIndices, subpagePath)
  /\ UNCHANGED <<loadError, pendingRead>>

Redo ==
  /\ Render(redo(historyState), selectedTabIndex, selectedKeyIndices, subpagePath)
  /\ UNCHANGED <<loadError, pendingRead>>

\* handleFileChange: a file was chosen, its read started
HandleFileChange(text) ==
  /\ pendingRead = NoFile
  /\ loadError' = Null
  /\ pendingRead' = text
  /\ UNCHANGED <<historyState, selectedTabIndex, selectedKeyIndices, subpagePath>>

\* what reader.onload computes from the text: the document to install, or
\* the error to show
LoadOutcome(text) ==
  LET data == JSONparse(text)
      result == validateProfile(data.v)
      normal == normalizeProfile(result.profile)
  IN  IF ~data.ok THEN [ok |-> FALSE, error |-> [kind |-> "SyntaxError"]]
      ELSE IF ~result.ok
      THEN [ok |-> FALSE, error |-> [kind |-> "validation", errors |-> result.errors]]
      ELSE IF normal = THROW THEN [ok |-> FALSE, error |-> [kind |-> "TypeError"]]
      ELSE [ok |-> TRUE, profile |-> normal]

\* the outcomes of the files that can be chosen, computed once
LoadOutcomes ==
  [text \in LoadTexts \cup PageTexts \cup {TextKeys, TextGrid, TextRowsX, TextStationIds} |->
     LoadOutcome(text)]

\* reader.onload of handleFileChange
ReaderOnload ==
  /\ pendingRead # NoFile
  /\ pendingRead' = NoFile
  /\ \E out \in {LoadOutcomes[pendingRead]} :
       IF out.ok
       THEN /\ Render(replaceProfile(out.profile), 0, <<>>, <<>>)
            /\ UNCHANGED loadError
       ELSE /\ loadError' = out.error
            /\ UNCHANGED <<historyState, selectedTabIndex, selectedKeyIndices, subpagePath>>

\* downloadProfile: the content of the downloaded file; the download changes
\* nothing in the editor
downloadProfile(p) == JSONstringify2(p)

\* applyNewProfile, reached from the dialog's New (discard) button
ApplyNewProfile ==
  /\ Render(replaceProfile(createDefaultProfile), 0, <<>>, <<>>)
  /\ loadError' = Null
  /\ UNCHANGED pendingRead

(***************************************************************************)
(* The round-trip script (src/unnamed/part_001, main): one document `raw`  *)
(* goes through validate, normalize, serialize, JSON.parse, validate,      *)
(* normalize and deepEqual.  rt.twice holds normalizeProfile applied to    *)
(* the normal form once more.                                              *)
(***************************************************************************)
S_A == <<"A">>
S_APP == <<"A", "P", "P">>
S_LOWW == <<"L", "O", "W", "W">>
S_LOWW_APP == <<"L", "O", "W", "W", "_", "A", "P", "P">>

KeyLOWW ==
  Obj(<<Ent(K_label, Arr(<<Str(S_LOWW), Str(S_APP)>>)), Ent(K_station_id, Str(S_LOWW_APP))>>)

LabelA == Ent(K_label, Arr(<<Str(S_A)>>))

ClientPageValue ==
  Obj(<<Ent(<<"m">>, Str(S_X)), Ent(<<"n">>, Arr(<<IntV(1), IntV(2)>>))>>)

\* the keys a fetched document may hold: well-formed ones and malformed ones
RawKeys ==
  { KeyLOWW,
    Obj(<<Ent(K_label, Arr(<<Str(S_A), IntV(1), Null, Str(S_X), Str(S_A)>>))>>),
    Obj(<<Ent(K_label, Arr(<<>>)), Ent(K_station_id, Str(<<>>))>>),
    Obj(<<LabelA, Ent(K_station_id, Arr(<<>>))>>),
    Obj(<<LabelA, Ent(K_station_id, Null)>>),
    Obj(<<LabelA, Ent(K_station_id, IntV(0))>>),
    Obj(<<LabelA, Ent(K_page, Obj(<<Ent(K_rows, IntV(2)), Ent(K_keys, Arr(<<KeyLOWW>>))>>))>>),
    Obj(<<LabelA, Ent(K_page, Obj(<<Ent(K_rows, Str(S_X)), Ent(K_keys, Arr(<<>>))>>))>>),
    Obj(<<LabelA, Ent(K_page, Obj(<<Ent(K_rows, IntV(0))>>))>>),
    Obj(<<LabelA, Ent(K_page, Obj(<<Ent(K_rows, Num10(29)), Ent(K_keys, Str(S_A))>>))>>),
    Obj(<<LabelA, Ent(K_page, Obj(<<Ent(K_rows, IntV(1)),
                                    Ent(K_client_page, ClientPageValue)>>))>>),
    Obj(<<Ent(K_label, Str(S_A))>>),
    Null,
    IntV(7) }

RawPages ==
  { Obj(<<Ent(K_rows, rows), Ent(K_keys, Arr(<<k>>))>>) :
      rows \in {IntV(2), Num10(29)}, k \in RawKeys }
  \cup { Obj(<<Ent(K_rows, IntV(1))>>),
         Obj(<<Ent(K_rows, IntV(4)), Ent(K_keys, Arr(<<>>))>>),
         Obj(<<Ent(K_rows, IntV(0)), Ent(K_keys, Arr(<<>>))>>),
         Obj(<<Ent(K_rows, IntV(3)), Ent(K_client_page, ClientPageValue)>>) }

RawLabels ==
  { Str(S_APP), Str(<<" ", "A", " ">>), Arr(<<Str(S_APP)>>),
    Arr(<<Str(S_A), Str(S_X), Str(S_A)>>) }

RawIds == { Str(S_LOWW), Str(<<" ", "L", " ">>) }

RawInputs ==
  { Obj(<<Ent(K_id, id), Ent(K_type, Str(S_Tabbed)),
          Ent(K_tabs, Arr(<<Obj(<<Ent(K_label, label), Ent(K_page, page)>>)>>))>>) :
      id \in RawIds, label \in RawLabels, page \in RawPages }

\* documents that break the rules of validateProfile, one or several at once
Absent == [t |-> "absent"]

Fields(es) == SelectSeq(es, LAMBDA e : e.v # Absent)

PageOk == Obj(<<Ent(K_rows, IntV(2)), Ent(K_keys, Arr(<<>>))>>)

RawTabs ==
  { Obj(<<Ent(K_label, Str(S_APP)), Ent(K_page, PageOk)>>),
    Null,
    IntV(7),
    Obj(<<Ent(K_label, Arr(<<Str(S_APP)>>)), Ent(K_page, PageOk)>>),
    Obj(<<Ent(K_label, Str(<<" ", " ">>))>>),
    Obj(<<Ent(K_label, Str(S_APP)),
          Ent(K_page, Obj(<<Ent(K_rows, IntV(0)), Ent(K_keys, Str(S_A))>>))>>),
    Obj(<<Ent(K_page, Obj(<<Ent(K_rows, Str(S_X))>>))>>),
    Obj(<<Ent(K_label, Str(S_APP)), Ent(K_page, IntV(3))>>) }

RawTabLists ==
  { Absent, Str(S_X), Arr(<<>>) }
  \cup { Arr(<<t>>) : t \in RawTabs }
  \cup { Arr(<<t, u>>) : t, u \in RawTabs }

RawViolations ==
  { Obj(Fields(<<Ent(K_id, id), Ent(K_type, type), Ent(K_tabs, tabs)>>)) :
      id \in {Str(S_LOWW), Str(<<" ", " ">>), IntV(1), Absent},
      type \in {Str(S_Tabbed), Str(S_X), Null, Absent},
      tabs \in RawTabLists }
  \cup { Null, Str(S_X), IntV(7), Arr(<<>>) }

RtIdle ==
  [pc |-> "idle", raw |-> Undef, validated |-> Undef, normalized |-> Undef,
   serialized |-> <<>>, parsed |-> Undef, reparsedValidated |-> Undef,
   reparsedNormalized |-> Undef, twice |-> Undef, verdict |-> ""]

RtStart(raw) == [RtIdle EXCEPT !.pc = "fetched", !.raw = raw]

RtFail(message) == [rt EXCEPT !.pc = "done", !.verdict = message]

\* validateProfile(raw)
RtValidate ==
  /\ rt.pc = "fetched"
  /\ LET validated == validateProfile(rt.raw)
     IN  rt' = IF ~validated.ok
               THEN [RtFail("FAIL: invalid profile") EXCEPT !.validated = validated]
               ELSE [rt EXCEPT !.pc = "validated", !.validated = validated]
  /\ UNCHANGED <<appVars, mon, e2e, vacsStations>>

\* normalizeProfile(validated.profile); a TypeError ends in the catch clause
RtNormalize ==
  /\ rt.pc = "validated"
  /\ LET normalized == normalizeProfile(rt.validated.profile)
     IN  rt' = IF normalized = THROW THEN RtFail("FAIL: TypeError")
               ELSE [rt EXCEPT !.pc = "normalized", !.normalized = normalized]
  /\ UNCHANGED <<appVars, mon, e2e, vacsStations>>

\* normalizeProfile applied to the normal form once more
RtNormalizeAgain ==
  /\ rt.pc = "normalized"
  /\ rt' = [rt EXCEPT !.pc = "twice", !.twice = normalizeProfile(rt.normalized)]
  /\ UNCHANGED <<appVars, mon, e2e, vacsStations>>

\* serializeProfile(normalized)
RtSerialize ==
  /\ rt.pc = "normalized"
  /\ rt' = [rt EXCEPT !.pc = "serialized", !.serialized = serializeProfile(rt.normalized)]
  /\ UNCHANGED <<appVars, mon, e2e, vacsStations>>

\* JSON.parse(serialized)
RtParse ==
  /\ rt.pc = "serialized"
  /\ LET parsed == JSONparse(rt.serialized)
     IN  rt' = IF ~parsed.ok THEN RtFail("FAIL: serialized output is not valid JSON")
               ELSE [rt EXCEPT !.pc = "parsed", !.parsed = parsed.v]
  /\ UNCHANGED <<appVars, mon, e2e, vacsStations>>

\* validateProfile(parsed)
RtRevalidate ==
  /\ rt.pc = "parsed"
  /\ LET validated == validateProfile(rt.parsed)
     IN  rt' = IF ~validated.ok
               THEN [RtFail("FAIL: reparsed profile invalid") EXCEPT
                       !.reparsedValidated = validated]
               ELSE [rt EXCEPT !.pc = "revalidated", !.reparsedValidated = validated]
  /\ UNCHANGED <<appVars, mon, e2e, vacsStations>>

\* normalizeProfile(reparsedValidated.profile) and the deepEqual verdict
RtCompare ==
  /\ rt.pc = "revalidated"
  /\ LET again == normalizeProfile(rt.reparsedValidated.profile)
     IN  rt' = IF again = THROW THEN RtFail("FAIL: TypeError")
               ELSE [rt EXCEPT !.pc = "done", !.reparsedNormalized = again,
                               !.verdict = IF deepEqual(rt.normalized, again) THEN "OK"
                                           ELSE "FAIL: round-trip data mismatch"]
  /\ UNCHANGED <<appVars, mon, e2e, vacsStations>>

(***************************************************************************)
(* The station loader (src/src/lib/vacsStations.ts).  vacsStations holds   *)
(* the module variable cached (0 for null, else the number of the promise),*)
(* the promises loadStations has made with the state of their loads, and   *)
(* the promise each call returned.  An entry is its id and its fir;        *)
(* parent_id and controlled_by travel with the entry and are left out.     *)
(***************************************************************************)
MaxCalls == 4
MaxLoads == 2

\* the FIR directories in the order of the dataset listing, and the ids of
\* the stations file of each
DatasetFirs == <<"F1", "F2">>

StationIdsOf(fir) == IF fir = "F1" THEN <<"X", "A">> ELSE <<"B", "X">>

\* the ids in the order of localeCompare
IdOrder == <<"A", "B", "X">>

\* what discoverFirs resolves to; "throws" when the listing fails
DiscoverOutcomes == {DatasetFirs, <<"F2">>, <<>>}

\* what loadStationsForFir does: it resolves to the entries of the file, to
\* [] when there is no file, or it throws (a file that does not parse)
FirOutcomes == {"entries", "none", "throws"}

StationsIdle == [cached |-> 0, loads |-> <<>>, returned |-> <<>>]

NewLoad ==
  [state |-> "pending", phase |-> "discover", firs |-> <<>>, waiting |-> {},
   outcomes |-> <<>>, byId |-> <<>>, value |-> <<>>, finallyRan |-> FALSE]

\* a promise has settled and its finally callback is still queued
FinallyQueued ==
  \E p \in DOMAIN vacsStations.loads :
    vacsStations.loads[p].state # "pending" /\ ~vacsStations.loads[p].finallyRan

\* loadStations(): the callers run in tasks and in reactions registered
\* after the finally callback, so never while that callback is queued
loadStations ==
  /\ Len(vacsStations.returned) < MaxCalls
  /\ ~FinallyQueued
  /\ IF vacsStations.cached # 0
     THEN vacsStations' =
            [vacsStations EXCEPT !.returned = Append(@, vacsStations.cached)]
     ELSE /\ Len(vacsStations.loads) < MaxLoads
          /\ vacsStations' =
               [cached |-> Len(vacsStations.loads) + 1,
                loads |-> Append(vacsStations.loads, NewLoad),
                returned |-> Append(vacsStations.returned, Len(vacsStations.loads) + 1)]

\* await discoverFirs(): the per-FIR loads start together, or the listing
\* fails and the promise rejects
DiscoverFirsDone(p, firs) ==
  /\ vacsStations.loads[p].phase = "discover"
  /\ vacsStations' =
       [vacsStations EXCEPT !.loads[p] =
          [@ EXCEPT !.phase = "fetch", !.firs = firs, !.waiting = Range(firs)]]

DiscoverFirsThrows(p) ==
  /\ vacsStations.loads[p].phase = "discover"
  /\ vacsStations' =
       [vacsStations EXCEPT !.loads[p] = [@ EXCEPT !.phase = "done", !.state = "rejected"]]

\* for (const e of entries) if (!byId.has(e.id)) byId.set(e.id, e)
RECURSIVE SetEach(_, _)
SetEach(byId, entries) ==
  IF entries = <<>> THEN byId
  ELSE SetEach(IF \E i \in DOMAIN byId : byId[i].id = Head(entries).id
               THEN byId ELSE Append(byId, Head(entries)),
               Tail(entries))

\* the callback of one FIR after its loadStationsForFir has settled
FirLoaded(p, fir, outcome) ==
  /\ vacsStations.loads[p].phase = "fetch"
  /\ fir \in vacsStations.loads[p].waiting
  /\ vacsStations' =
       [vacsStations EXCEPT !.loads[p] =
          [@ EXCEPT !.waiting = @ \ {fir},
                    !.outcomes = Append(@, <<fir, outcome>>),
                    !.byId = IF outcome = "entries"
                             THEN SetEach(@, [i \in DOMAIN StationIdsOf(fir) |->
                                                [id |-> StationIdsOf(fir)[i], fir |-> fir]])
                             ELSE @]]

\* Array.from(byId.values()).sort((a, b) => a.id.localeCompare(b.id))
SortById(byId) ==
  Concat([k \in DOMAIN IdOrder |-> SelectSeq(byId, LAMBDA e : e.id = IdOrder[k])])

\* Promise.all has resolved: the list is returned and the promise fulfils
AllFirsLoaded(p) ==
  /\ vacsStations.loads[p].phase = "fetch"
  /\ vacsStations.loads[p].waiting = {}
  /\ vacsStations' =
       [vacsStations EXCEPT !.loads[p] =
          [@ EXCEPT !.phase = "done", !.state = "fulfilled",
                    !.value = SortById(vacsStations.loads[p].byId)]]

\* the finally callback that leaves cached as it is
StationsFinallyKeepsCached(p) ==
  /\ vacsStations.loads[p].state # "pending"
  /\ ~vacsStations.loads[p].finallyRan
  /\ vacsStations' = [vacsStations EXCEPT !.loads[p] = [@ EXCEPT !.finallyRan = TRUE]]

\* p.finally(() => { cached = null })
StationsFinally(p) ==
  /\ vacsStations.loads[p].state # "pending"
  /\ ~vacsStations.loads[p].finallyRan
  /\ vacsStations' =
       [vacsStations EXCEPT !.cached = 0, !.loads[p] = [@ EXCEPT !.finallyRan = TRUE]]

(***************************************************************************)
(* Observers.  mon follows the history calls: docs is d0..dn of the        *)
(* current run of Mutate calls, undos and redos count the Undo calls that  *)
(* followed it and the Redo calls that followed those; discarded holds     *)
(* the snapshots the last Mutate cut off (those equal to no snapshot it    *)
(* kept), as long as only Undo and Redo ran since.  e2e counts how far     *)
(* the run has followed the end-to-end example, -1 once it left it.        *)
(***************************************************************************)
MonIdle ==
  [last |-> "none", phase |-> "off", docs |-> <<>>, undos |-> 0, redos |-> 0,
   discarded |-> {}, moved |-> FALSE, installed |-> <<>>, over |-> 0]

\* replaceProfile(p) was called on a history of `over` snapshots
MonReplace(p, last) ==
  [MonIdle EXCEPT !.last = last, !.phase = "edit", !.docs = <<p>>, !.installed = <<p>>,
                  !.over = Len(historyState.history)]

\* mutateProfile was called and computed next
MonMutate(next) ==
  LET h == historyState
      kept == Range(SubSeq(h.history, 1, h.index + 1)) \cup {next}
      cut == Range(SubSeq(h.history, h.index + 2, Len(h.history)))
  IN  mon' = [MonIdle EXCEPT
                !.last = "mutate", !.phase = "edit",
                !.docs = IF mon.phase = "edit" THEN Append(mon.docs, next)
                         ELSE <<Current(h), next>>,
                !.discarded = cut \ kept,
                !.moved = historyState'.index # h.index]

MonUndo ==
  mon' = [(IF mon.phase \in {"edit", "undo"} /\ mon.undos < Len(mon.docs) - 1
           THEN [mon EXCEPT !.phase = "undo", !.undos = mon.undos + 1]
           ELSE [mon EXCEPT !.phase = "off", !.docs = <<>>, !.undos = 0, !.redos = 0])
          EXCEPT !.last = "undo", !.moved = historyState'.index # historyState.index]

MonRedo ==
  mon' = [(IF mon.phase \in {"undo", "redo"} /\ mon.redos < mon.undos
           THEN [mon EXCEPT !.phase = "redo", !.redos = mon.redos + 1]
           ELSE [mon EXCEPT !.phase = "off", !.docs = <<>>, !.undos = 0, !.redos = 0])
          EXCEPT !.last = "redo", !.moved = historyState'.index # historyState.index]

E2EScript == <<"choose", "load", "addKey", "select0", "removeKey", "undo">>

E2E(op) ==
  e2e' = IF e2e >= 0 /\ e2e < Len(E2EScript) /\ E2EScript[e2e + 1] = op THEN e2e + 1 ELSE -1

(***************************************************************************)
(* Specifications.                                                         *)
(***************************************************************************)
AppInit ==
  /\ historyState = InitialHistory(createDefaultProfile)
  /\ selectedTabIndex = 0
  /\ selectedKeyIndices = <<>>
  /\ subpagePath = <<>>
  /\ loadError = Null
  /\ pendingRead = NoFile
  /\ keyClipboard = Null

\* The editor.
Init ==
  /\ AppInit
  /\ rt = RtIdle
  /\ mon = MonIdle
  /\ e2e = 0
  /\ vacsStations = StationsIdle

\* every step of the editor leaves the script alone and moves the scenario observer
Step(op) == E2E(op) /\ UNCHANGED <<keyClipboard, rt, mon, vacsStations>>

Next ==
  \/ \E id \in EditorIds : Room(MaxHistory) /\ SetProfileId(id) /\ Step("setProfileId")
  \/ \E e \in LabelEdits :
       Room(MaxHistory) /\ SetTabLabelLine(e[1], e[2]) /\ Step("setTabLabelLine")
  \/ Room(MaxHistory) /\ AddTab /\ Step("addTab")
  \/ Room(MaxHistory) /\ DuplicateTab /\ Step("duplicateTab")
  \/ Room(MaxHistory) /\ RemoveTab /\ Step("removeTab")
  \/ \E from, to \in 0..(Len(Tabs(profile)) - 1) :
       Room(MaxHistory) /\ MoveTab(from, to) /\ Step("moveTab")
  \/ Room(MaxHistory) /\ AddKey /\ Step("addKey")
  \/ Room(MaxHistory) /\ RemoveKey /\ Step("removeKey")
  \/ \E from, to \in 0..(Len(currentKeys) - 1) :
       Room(MaxHistory) /\ ReorderKeys(from, to) /\ Step("reorderKeys")
  \/ \E e \in LabelEdits :
       Room(MaxHistory) /\ SetKeyLabelLine(e[1], e[2]) /\ Step("setKeyLabelLine")
  \/ \E i \in 0..(Len(Tabs(profile)) - 1) : SelectTab(i) /\ Step("selectTab")
  \/ \E i \in 0..(Len(currentKeys) - 1), add, range \in BOOLEAN :
       /\ HandleSelectKey(i, add, range)
       /\ Step(IF i = 0 /\ ~add /\ ~range THEN "select0" ELSE "select")
  \/ Undo /\ Step("undo")
  \/ Redo /\ Step("redo")
  \/ \E text \in LoadTexts :
       HandleFileChange(text) /\ Step(IF text = TextLOWW THEN "choose" ELSE "chooseOther")
  \/ ReaderOnload /\ Step(IF pendingRead = TextLOWW THEN "load" ELSE "loadOther")
  \/ ApplyNewProfile /\ Step("new")

Spec == Init /\ [][Next]_vars

\* The history hook under the profile-id edits, to a greater depth.
InitHist ==
  /\ AppInit
  /\ rt = RtIdle
  /\ mon = [MonIdle EXCEPT !.phase = "edit", !.docs = <<createDefaultProfile>>]
  /\ e2e = 0
  /\ vacsStations = StationsIdle

NextHist ==
  \/ \E id \in TypedIds :
       /\ Room(MaxHistoryH)
       /\ SetProfileId(id)
       /\ MonMutate(Put(profile, K_id, Str(Trim(id))))
       /\ UNCHANGED <<keyClipboard, rt, e2e, vacsStations>>
  \/ Undo /\ MonUndo /\ UNCHANGED <<keyClipboard, rt, e2e, vacsStations>>
  \/ Redo /\ MonRedo /\ UNCHANGED <<keyClipboard, rt, e2e, vacsStations>>
  \/ /\ ApplyNewProfile
     /\ mon' = MonReplace(createDefaultProfile, "new")
     /\ UNCHANGED <<keyClipboard, rt, e2e, vacsStations>>
  \/ \E text \in LoadTexts : HandleFileChange(text) /\ UNCHANGED <<keyClipboard, rt, mon, e2e, vacsStations>>
  \/ /\ ReaderOnload
     /\ \E out \in {LoadOutcomes[pendingRead]} :
          mon' = IF out.ok THEN MonReplace(out.profile, "load")
                 ELSE [mon EXCEPT !.last = "rejected"]
     /\ UNCHANGED <<keyClipboard, rt, e2e, vacsStations>>

SpecHist == InitHist /\ [][NextHist]_vars

\* The round-trip script over the fetched documents.
InitRt ==
  /\ AppInit
  /\ \E raw \in RawInputs \cup RawViolations : rt = RtStart(raw)
  /\ mon = MonIdle
  /\ e2e = 0
  /\ vacsStations = StationsIdle

NextRt ==
  \/ RtValidate
  \/ RtNormalize
  \/ RtNormalizeAgain
  \/ RtSerialize
  \/ RtParse
  \/ RtRevalidate
  \/ RtCompare

SpecRt == InitRt /\ [][NextRt]_vars

\* the editor after Load JSON has installed the document of an accepted file
Loaded(text) ==
  /\ historyState = replaceProfile(LoadOutcomes[text].profile)
  /\ selectedTabIndex = 0
  /\ selectedKeyIndices = <<>>
  /\ subpagePath = <<>>
  /\ loadError = Null
  /\ pendingRead = NoFile
  /\ keyClipboard = Null

Quiet == UNCHANGED <<keyClipboard, rt, mon, e2e, vacsStations>>

\* The page editor on a loaded file: subpages, the Rows input, the key editor.
InitPage ==
  /\ \E text \in PageTexts : Loaded(text)
  /\ rt = RtIdle
  /\ mon = MonIdle
  /\ e2e = 0
  /\ vacsStations = StationsIdle

NextPage ==
  \/ \E i \in 0..(Len(Tabs(profile)) - 1) : SelectTab(i) /\ Quiet
  \/ \E i \in 0..(Len(currentKeys) - 1), add, range \in BOOLEAN :
       HandleSelectKey(i, add, range) /\ Quiet
  \/ \E i \in 0..(Len(currentKeys) - 1) : HandleDoubleClickKey(i) /\ Quiet
  \/ \E n \in 0..(Len(subpagePath) - 1) : GoBackToPath(Slice(subpagePath, 0, n)) /\ Quiet
  \/ \E text \in RowsInputs : Room(MaxHistoryP) /\ SetCurrentPageRows(text) /\ Quiet
  \/ Room(MaxHistoryP) /\ AddKey /\ Quiet
  \/ Room(MaxHistoryP) /\ RemoveKey /\ Quiet
  \/ \E value \in StationEdits : Room(MaxHistoryP) /\ SetStationId(value) /\ Quiet
  \/ Room(MaxHistoryP) /\ Len(subpagePath) < MaxDepth /\ AddSubpage /\ Quiet
  \/ Undo /\ Quiet
  \/ Redo /\ Quiet

SpecPage == InitPage /\ [][NextPage]_vars

\* The clipboard on a loaded page of keys.
InitClip ==
  /\ Loaded(TextKeys)
  /\ rt = RtIdle
  /\ mon = MonIdle
  /\ e2e = 0
  /\ vacsStations = StationsIdle

NextClip ==
  \/ \E i \in 0..(Len(currentKeys) - 1), add, range \in BOOLEAN :
       HandleSelectKey(i, add, range) /\ Quiet
  \/ CopyKeys /\ UNCHANGED <<rt, mon, e2e, vacsStations>>
  \/ Room(MaxHistoryP) /\ CutKeys /\ UNCHANGED <<rt, mon, e2e, vacsStations>>
  \/ /\ Room(MaxHistoryP)
     /\ IF Nullish(keyClipboard) THEN TRUE
        ELSE Len(currentKeys) + Len(keyClipboard.keys) <= MaxKeysP
     /\ PasteKeys
     /\ UNCHANGED <<rt, mon, e2e, vacsStations>>

SpecClip == InitClip /\ [][NextClip]_vars

\* The move operations on a loaded page of keys, with swap, remove, cut and
\* paste: one edit of the loaded page, and a paste of what was cut.
Directions == {"up", "down", "left", "right"}

InitMove ==
  /\ Loaded(TextGrid)
  /\ rt = RtIdle
  /\ mon = MonIdle
  /\ e2e = 0
  /\ vacsStations = StationsIdle

NextMove ==
  \/ \E i \in 0..(Len(currentKeys) - 1), add, range \in BOOLEAN :
       HandleSelectKey(i, add, range) /\ Quiet
  \/ \E direction \in Directions :
       Room(MaxHistoryM) /\ MoveSelectedKeys(direction) /\ Quiet
  \/ Room(MaxHistoryM) /\ SwapSelectedKeys /\ Quiet
  \/ Room(MaxHistoryM) /\ RemoveKey /\ Quiet
  \/ Room(MaxHistoryM) /\ CutKeys /\ UNCHANGED <<rt, mon, e2e, vacsStations>>
  \/ Room(MaxHistoryM + 1) /\ PasteKeys /\ UNCHANGED <<rt, mon, e2e, vacsStations>>

SpecMove == InitMove /\ [][NextMove]_vars

\* Selection and clipboard across tabs, subpages, edits and their undo, on
\* the loaded file of PageTexts that has a subpage and a client-page tab.
\* The clipboard is filled by Cut.
\* the handler that ran last, for the properties that speak of Undo and Redo
Ran(op) == mon' = [MonIdle EXCEPT !.last = op] /\ UNCHANGED <<rt, e2e, vacsStations>>

InitNav ==
  Loaded(TextPages) /\ rt = RtIdle /\ mon = MonIdle /\ e2e = 0 /\ vacsStations = StationsIdle

NextNav ==
  \/ \E i \in 0..(Len(Tabs(profile)) - 1) : SelectTab(i) /\ Ran("none") /\ UNCHANGED keyClipboard
  \/ \E i \in 0..(Len(currentKeys) - 1), add, range \in BOOLEAN :
       HandleSelectKey(i, add, range) /\ Ran("none") /\ UNCHANGED keyClipboard
  \/ \E i \in 0..(Len(currentKeys) - 1) :
       HandleDoubleClickKey(i) /\ Ran("none") /\ UNCHANGED keyClipboard
  \/ \E n \in 0..(Len(subpagePath) - 1) :
       GoBackToPath(Slice(subpagePath, 0, n)) /\ Ran("none") /\ UNCHANGED keyClipboard
  \/ Room(MaxHistoryP) /\ AddKey /\ Ran("none") /\ UNCHANGED keyClipboard
  \/ Room(MaxHistoryP) /\ RemoveKey /\ Ran("none") /\ UNCHANGED keyClipboard
  \/ \E from, to \in 0..(Len(currentKeys) - 1) :
       Room(MaxHistoryP) /\ ReorderKeys(from, to) /\ Ran("none") /\ UNCHANGED keyClipboard
  \/ \E direction \in Directions :
       Room(MaxHistoryP) /\ MoveSelectedKeys(direction) /\ Ran("none") /\ UNCHANGED keyClipboard
  \/ Room(MaxHistoryP) /\ CutKeys /\ Ran("none")
  \/ Undo /\ Ran("undo") /\ UNCHANGED keyClipboard
  \/ Redo /\ Ran("redo") /\ UNCHANGED keyClipboard

SpecNav == InitNav /\ [][NextNav]_vars

\* The round-trip script over documents whose arrays of primitives come
\* close to the print width: a key label, the label of a key in a subpage,
\* and arrays inside a client_page value (as a property, as an element of
\* an array, inside an object of an array).  The first string of an array
\* has MinWide..MaxWide characters.
MinWide == 1
MaxWide == 29

WideStr(n) == Str([i \in 1..n |-> "a"])

\* three strings, the first of n characters, the others of fill characters
WideArr(n, fill) == Arr(<<WideStr(n), WideStr(fill), WideStr(fill)>>)

WideDoc(page) ==
  Obj(<<Ent(K_id, Str(S_LOWW)), Ent(K_type, Str(S_Tabbed)),
        Ent(K_tabs, Arr(<<Obj(<<Ent(K_label, Str(S_APP)), Ent(K_page, page)>>)>>))>>)

WideKeyPage(key) == Obj(<<Ent(K_rows, IntV(2)), Ent(K_keys, Arr(<<key>>))>>)

WideClientPage(value) == Obj(<<Ent(K_rows, IntV(2)), Ent(K_client_page, value)>>)

WideDocs ==
  UNION { { WideDoc(WideKeyPage(Obj(<<Ent(K_label, WideArr(n, 16))>>))),
            WideDoc(WideKeyPage(Obj(<<Ent(K_label, WideArr(n, 16)),
                                      Ent(K_station_id, Str(S_LOWW))>>))),
            WideDoc(WideKeyPage(Obj(<<LabelA,
                                      Ent(K_page, WideKeyPage(Obj(<<Ent(K_label, WideArr(n, 13))>>)))>>))),
            WideDoc(WideClientPage(Obj(<<Ent(S_A, WideArr(n, 19))>>))),
            WideDoc(WideClientPage(Obj(<<Ent(S_A, Arr(<<WideArr(n, 26), Arr(<<Str(S_A)>>)>>))>>))),
            WideDoc(WideClientPage(Obj(<<Ent(S_A, Arr(<<Obj(<<Ent(S_X, WideArr(n, 17))>>)>>))>>))) }
          : n \in MinWide..MaxWide }

InitWide ==
  /\ AppInit
  /\ \E raw \in WideDocs : rt = RtStart(raw)
  /\ mon = MonIdle
  /\ e2e = 0
  /\ vacsStations = StationsIdle

SpecWide == InitWide /\ [][NextRt]_vars

\* The station loader: calls of loadStations while the fetches of a load
\* complete in any order.
InitStations ==
  /\ AppInit
  /\ rt = RtIdle
  /\ mon = MonIdle
  /\ e2e = 0
  /\ vacsStations = StationsIdle

NextStations ==
  \/ loadStations /\ UNCHANGED <<appVars, rt, mon, e2e>>
  \/ \E p \in DOMAIN vacsStations.loads, firs \in DiscoverOutcomes :
       DiscoverFirsDone(p, firs) /\ UNCHANGED <<appVars, rt, mon, e2e>>
  \/ \E p \in DOMAIN vacsStations.loads :
       DiscoverFirsThrows(p) /\ UNCHANGED <<appVars, rt, mon, e2e>>
  \/ \E p \in DOMAIN vacsStations.loads, fir \in Range(DatasetFirs), outcome \in FirOutcomes :
       FirLoaded(p, fir, outcome) /\ UNCHANGED <<appVars, rt, mon, e2e>>
  \/ \E p \in DOMAIN vacsStations.loads :
       AllFirsLoaded(p) /\ UNCHANGED <<appVars, rt, mon, e2e>>
  \/ \E p \in DOMAIN vacsStations.loads :
       StationsFinally(p) /\ UNCHANGED <<appVars, rt, mon, e2e>>

SpecStations == InitStations /\ [][NextStations]_vars

\* Reordering, swapping and moving keys on the grid page and inside the
\* subpage whose rows is no number.
InitPerm ==
  /\ Loaded(TextGrid) \/ Loaded(TextRowsX)
  /\ rt = RtIdle
  /\ mon = MonIdle
  /\ e2e = 0
  /\ vacsStations = StationsIdle

NextPerm ==
  \/ \E i \in 0..(Len(currentKeys) - 1), add, range \in BOOLEAN :
       HandleSelectKey(i, add, range) /\ Quiet
  \/ \E i \in 0..(Len(currentKeys) - 1) : HandleDoubleClickKey(i) /\ Quiet
  \/ \E n \in 0..(Len(subpagePath) - 1) : GoBackToPath(Slice(subpagePath, 0, n)) /\ Quiet
  \/ \E from, to \in 0..(Len(currentKeys) - 1) :
       Room(MaxHistoryM) /\ ReorderKeys(from, to) /\ Quiet
  \/ Room(MaxHistoryM) /\ SwapSelectedKeys /\ Quiet
  \/ \E direction \in Directions :
       Room(MaxHistoryM) /\ MoveSelectedKeys(direction) /\ Quiet

SpecPerm == InitPerm /\ [][NextPerm]_vars

\* The Station ID input on a loaded file whose keys hold station ids of
\* several shapes.
InitStationId ==
  /\ Loaded(TextStationIds)
  /\ rt = RtIdle
  /\ mon = MonIdle
  /\ e2e = 0
  /\ vacsStations = StationsIdle

NextStationId ==
  \/ \E i \in 0..(Len(currentKeys) - 1), add, range \in BOOLEAN :
       HandleSelectKey(i, add, range) /\ Quiet
  \/ \E i \in 0..(Len(currentKeys) - 1) : HandleDoubleClickKey(i) /\ Quiet
  \/ \E n \in 0..(Len(subpagePath) - 1) : GoBackToPath(Slice(subpagePath, 0, n)) /\ Quiet
  \/ \E value \in StationEdits : Room(MaxHistoryP) /\ SetStationId(value) /\ Quiet
  \/ Undo /\ Quiet
  \/ Redo /\ Quiet

SpecStationId == InitStationId /\ [][NextStationId]_vars

(***************************************************************************)
(* Properties of the history hook, checked under SpecHist.                 *)
(***************************************************************************)
\* C1: from a current document d0, after n Mutate calls that produced d1..dn
\* (mon.docs), k <= n Undo calls make d(n-k) the current document and j <= k
\* Redo calls after them make d(n-k+j) the current document, so k Redo calls
\* restore dn; while only Mutate calls ran, the current document is dn.
C1_UndoRedoWalk ==
  LET n == Len(mon.docs) - 1
  IN  /\ mon.phase = "edit" => profile = mon.docs[n + 1]
      /\ mon.phase = "undo" => profile = mon.docs[n - mon.undos + 1]
      /\ mon.phase = "redo" => profile = mon.docs[n - mon.undos + mon.redos + 1]

\* three edits, three undos back to d0, three redos back to d3
C1_Witness ==
  /\ mon.phase = "redo"
  /\ Len(mon.docs) = 4
  /\ mon.undos = 3
  /\ mon.redos = 3
  /\ mon.docs[1] = createDefaultProfile
  /\ mon.docs[4] # mon.docs[1]
  /\ profile = mon.docs[4]

\* C2: right after a Mutate (also one applied below the last snapshot) Redo
\* is a no-op and canRedo is false, and as long as only Undo and Redo follow,
\* no snapshot that the Mutate discarded (mon.discarded) is the current
\* document.
C2_MutateDiscardsRedo ==
  /\ mon.last = "mutate" =>
       /\ ~canRedo(historyState)
       /\ redo(historyState) = historyState
  /\ profile \notin mon.discarded
  /\ \A i \in 1..Len(historyState.history) : historyState.history[i] \notin mon.discarded

\* a Mutate discarded a snapshot, and Undo calls and a Redo call followed
C2_Witness ==
  /\ mon.discarded # {}
  /\ mon.last = "redo"
  /\ mon.moved
  /\ historyState.index = 1

\* C3: an Undo at index 0 and a Redo at the last snapshot change neither the
\* snapshots nor the cursor nor the current document; canUndo holds exactly
\* when the Undo step moves the cursor, canRedo exactly when the Redo step does.
C3_EdgeNoOps ==
  [][/\ (mon'.last = "undo" /\ mon' # mon /\ historyState.index = 0) =>
          historyState' = historyState
     /\ (mon'.last = "redo" /\ mon' # mon
           /\ historyState.index = Len(historyState.history) - 1) =>
          historyState' = historyState
     /\ (mon'.last = "undo" /\ mon' # mon) =>
          (canUndo(historyState) <=> historyState'.index # historyState.index)
     /\ (mon'.last = "redo" /\ mon' # mon) =>
          (canRedo(historyState) <=> historyState'.index # historyState.index)]_vars

\* an Undo ran at index 0 of a history that has more snapshots
C3_Witness ==
  /\ mon.last = "undo"
  /\ ~mon.moved
  /\ historyState.index = 0
  /\ Len(historyState.history) > 1

\* C4: after Replace(p), by a successful load or by New profile, and as long
\* as only Undo and Redo follow, the history is the single snapshot p with
\* the cursor on it, whatever it was before: Undo and Redo are no-ops and p
\* stays the current document.
C4_ReplaceResets ==
  mon.installed # <<>> =>
    /\ historyState.history = mon.installed
    /\ historyState.index = 0
    /\ profile = mon.installed[1]
    /\ undo(historyState) = historyState
    /\ redo(historyState) = historyState
    /\ ~canUndo(historyState)
    /\ ~canRedo(historyState)

\* a file was loaded over a history of several snapshots, then Undo ran
C4_Witness ==
  /\ mon.installed # <<>>
  /\ mon.over > 1
  /\ mon.last = "undo"
  /\ Get(profile, K_id) = Str(S_LOWW)

\* the text is not well-formed JSON, or validation returns errors
Rejected(text) ==
  \/ ~JSONparse(text).ok
  \/ ~validateProfile(JSONparse(text).v).ok

\* C5: the onload step of a rejected file leaves the snapshots, the cursor
\* and with them the current document as they were, as well as the
\* selection; it sets the error message.
C5_RejectedLoadKeepsHistory ==
  [][(pendingRead # NoFile /\ pendingRead' = NoFile /\ Rejected(pendingRead)) =>
       /\ historyState' = historyState
       /\ UNCHANGED <<selectedTabIndex, selectedKeyIndices, subpagePath>>
       /\ loadError' # Null]_vars

\* a load was just rejected while the history had snapshots on both sides
\* of the cursor
C5_Witness ==
  /\ mon.last = "rejected"
  /\ loadError # Null
  /\ Len(historyState.history) = 3
  /\ historyState.index = 1
  /\ Get(profile, K_id) # Str(S_NEW)

(***************************************************************************)
(* Properties of the editor, checked under Spec.                           *)
(***************************************************************************)
\* C6: when the end-to-end example has run (the LOWW file with the tab label
\* ["APP"] chosen and read, one key added, the first key selected and
\* removed, one Undo), the keys of the tab page are exactly the one key of
\* the file.  The code does not satisfy it: see C6_ExampleRan.
C6_EndToEndExample == e2e = Len(E2EScript) => currentKeys = <<KeyLOWW>>

\* the example has run to its end; the file was rejected for its array label,
\* so the keys are those of the new profile after add, remove and undo
C6_ExampleRan ==
  /\ e2e = Len(E2EScript)
  /\ loadError # Null
  /\ Get(profile, K_id) = Str(S_NEW)

\* the document was reached from the default profile by editor operations:
\* only replaceProfile changes the first snapshot of the history
FromDefault == historyState.history[1] = createDefaultProfile

\* C10: a document reached from the default profile by editor operations can
\* be exported and loaded back: the exported text parses, validation accepts
\* it, and the document the load installs equals the exported one.  The code
\* does not satisfy it: the export of the default profile itself is rejected.
C10_ExportLoadsBack ==
  FromDefault =>
    /\ LoadOutcome(downloadProfile(profile)).ok
    /\ deepEqual(LoadOutcome(downloadProfile(profile)).profile, profile)

\* a document edited from the default profile whose export is rejected
C10_Witness ==
  /\ FromDefault
  /\ Len(Tabs(profile)) = 2
  /\ Len(currentKeys) = 1
  /\ ~LoadOutcome(downloadProfile(profile)).ok

(***************************************************************************)
(* Properties of validation, normalization and serialization, checked      *)
(* under SpecRt over the documents of RawInputs.                           *)
(***************************************************************************)
\* C7: for every document that validateProfile accepts, the script runs to
\* the verdict OK: serializing the normal form, parsing the text, validating
\* and normalizing again succeed and give a value deepEqual to the normal
\* form.  The code does not satisfy it.
C7_RoundTrip == (rt.pc = "done" /\ rt.validated.ok) => rt.verdict = "OK"

\* an accepted document came back from the round trip different
C7_Witness ==
  /\ rt.pc = "done"
  /\ rt.validated.ok
  /\ rt.verdict = "FAIL: round-trip data mismatch"

\* C8: for every document that validateProfile accepts, normalizing the
\* normal form again gives a value equal to the normal form.  The code does
\* not satisfy it.
C8_NormalizeIdempotent == rt.pc = "twice" => rt.twice = rt.normalized

\* a normal form with a key whose station_id is the empty string, which
\* normalizeProfile drops
C8_Witness ==
  /\ rt.pc = "twice"
  /\ rt.twice # THROW
  /\ Get(At(getKeysAtPath(rt.normalized, 0, <<>>), 0), K_station_id) = Str(<<>>)
  /\ Get(At(getKeysAtPath(rt.twice, 0, <<>>), 0), K_station_id) = Undef

IsInteger(v) == IsNum(v) /\ v.n10 % 10 = 0

StringsUpTo(v, min, max) ==
  /\ IsArr(v)
  /\ Len(v.a) >= min
  /\ Len(v.a) <= max
  /\ \A i \in 1..Len(v.a) : IsStr(v.a[i])

\* the Profile JSON schema, tab labels being arrays of 1 to 3 strings
RECURSIVE PageConforms(_)
PageConforms(page) ==
  /\ IsObj(page)
  /\ IsInteger(GetOpt(page, K_rows))
  /\ GetOpt(page, K_rows).n10 >= 10
  /\ \/ HasKey(page, K_client_page)
     \/ /\ IsArr(GetOpt(page, K_keys))
        /\ \A i \in 1..Len(GetOpt(page, K_keys).a) :
             LET key == GetOpt(page, K_keys).a[i]
             IN  /\ IsObj(key)
                 /\ StringsUpTo(GetOpt(key, K_label), 0, 3)
                 /\ HasKey(key, K_station_id) => IsStr(GetOpt(key, K_station_id))
                 /\ HasKey(key, K_page) => PageConforms(GetOpt(key, K_page))

SchemaConforms(raw) ==
  /\ IsObj(raw)
  /\ IsStr(GetOpt(raw, K_id))
  /\ GetOpt(raw, K_id).s # <<>>
  /\ GetOpt(raw, K_type) = Str(S_Tabbed)
  /\ IsArr(GetOpt(raw, K_tabs))
  /\ GetOpt(raw, K_tabs).a # <<>>
  /\ \A i \in 1..Len(GetOpt(raw, K_tabs).a) :
       LET tab == GetOpt(raw, K_tabs).a[i]
       IN  /\ IsObj(tab)
           /\ StringsUpTo(GetOpt(tab, K_label), 1, 3)
           /\ PageConforms(GetOpt(tab, K_page))

\* C9: validateProfile accepts every document that conforms to the schema.
\* The code does not satisfy it: it asks for a tab label that is a string.
C9_ValidateAcceptsSchema ==
  (rt.pc \notin {"idle", "fetched"} /\ SchemaConforms(rt.raw)) => rt.validated.ok

\* a conforming document with an array label was validated and rejected
C9_Witness ==
  /\ rt.pc = "done"
  /\ SchemaConforms(rt.raw)
  /\ GetOpt(rt.raw, K_tabs).a[1] = Obj(<<Ent(K_label, Arr(<<Str(S_APP)>>)),
                                          Ent(K_page, Obj(<<Ent(K_rows, IntV(2)),
                                                            Ent(K_keys, Arr(<<KeyLOWW>>))>>))>>)
  /\ ~rt.validated.ok

\* the root is an object (typeof data === 'object', not null)
RootIsObject(raw) == ~Nullish(raw) /\ TypeOf(raw) = "object"

\* C11: when the root is an object whose type is not "Tabbed" or is missing,
\* validateProfile fails with exactly one error, whose path is type,
\* whatever else is wrong with id, tabs and the tabs' contents.
C11_TypeErrorAlone ==
  (rt.pc # "fetched" /\ RootIsObject(rt.raw) /\ Get(rt.raw, K_type) # Str(S_Tabbed)) =>
    /\ ~rt.validated.ok
    /\ Len(rt.validated.errors) = 1
    /\ rt.validated.errors[1].path = K_type

\* a document of another type with a blank id and two broken tabs was validated
C11_Witness ==
  /\ rt.pc = "done"
  /\ RootIsObject(rt.raw)
  /\ Get(rt.raw, K_type) = Str(S_X)
  /\ Get(rt.raw, K_id) = Str(<<" ", " ">>)
  /\ Get(rt.raw, K_tabs) = Arr(<<Null, Obj(<<Ent(K_label, Str(<<" ", " ">>))>>)>>)
  /\ Len(rt.validated.errors) = 1

\* the paths of the rules a Tabbed document breaks: id, tabs, and for the tab
\* at index i the tab itself, its label, its page, and the page's rows and keys
When(broken, path) == IF broken THEN {path} ELSE {}

TabRulePaths(t, i) ==
  IF Nullish(t) \/ TypeOf(t) # "object" THEN {TabPath(i, <<>>)}
  ELSE
    LET page == Get(t, K_page)
        hasPage == ~Nullish(page) /\ TypeOf(page) = "object"
        rows == Get(page, K_rows)
        keys == Get(page, K_keys)
    IN  When(~NonBlankString(Get(t, K_label)), TabPath(i, <<".">> \o K_label))
        \cup When(~hasPage, TabPath(i, <<".">> \o K_page))
        \cup When(hasPage /\ ~(IsNum(rows) /\ rows.n10 >= 10),
                  TabPath(i, <<".">> \o K_page \o <<".">> \o K_rows))
        \cup When(hasPage /\ ~(Nullish(keys) \/ IsArr(keys)),
                  TabPath(i, <<".">> \o K_page \o <<".">> \o K_keys))

ViolatedPaths(raw) ==
  LET tabs == Get(raw, K_tabs)
  IN  When(~NonBlankString(Get(raw, K_id)), K_id)
      \cup When(~(IsArr(tabs) /\ tabs.a # <<>>), K_tabs)
      \cup (IF IsArr(tabs)
            THEN UNION {TabRulePaths(tabs.a[i], i - 1) : i \in DOMAIN tabs.a}
            ELSE {})

IsPrefix(p, s) == Len(p) <= Len(s) /\ SubSeq(s, 1, Len(p)) = p

\* the place of an error path in the order id, tabs, tab 0, tab 1, ...
PathRank(path, n) ==
  IF path = K_id THEN 0
  ELSE IF path = K_tabs THEN 1
  ELSE 2 + CHOOSE i \in 0..n : IsPrefix(TabPath(i, <<>>), path)

\* C12: for a document of type "Tabbed", validateProfile returns one error for
\* every broken rule (id, tabs, and per tab label, page, page.rows, page.keys),
\* in the order id, tabs, then the tabs by index; the result is ok exactly when
\* no rule is broken, and a failed result has at least one error.
C12_OneErrorPerRule ==
  (rt.pc # "fetched" /\ RootIsObject(rt.raw) /\ Get(rt.raw, K_type) = Str(S_Tabbed)) =>
    LET errors == rt.validated.errors
        paths == {errors[i].path : i \in DOMAIN errors}
    IN  /\ paths = ViolatedPaths(rt.raw)
        /\ Len(errors) = Cardinality(paths)
        /\ \A i, j \in DOMAIN errors :
             i < j => PathRank(errors[i].path, Len(errors))
                        <= PathRank(errors[j].path, Len(errors))
        /\ rt.validated.ok <=> ViolatedPaths(rt.raw) = {}
        /\ ~rt.validated.ok => errors # <<>>

\* a Tabbed document with a blank id, a first tab breaking the label and page
\* rules and a second tab breaking the rows and keys rules was validated
C12_Witness ==
  /\ rt.pc = "done"
  /\ RootIsObject(rt.raw)
  /\ Get(rt.raw, K_type) = Str(S_Tabbed)
  /\ Len(rt.validated.errors) = 5
  /\ rt.validated.errors[1].path = K_id
  /\ rt.validated.errors[3].path = TabPath(0, <<".">> \o K_page)
  /\ rt.validated.errors[5].path = TabPath(1, <<".">> \o K_page \o <<".">> \o K_keys)

(***************************************************************************)
(* Properties of the documents the editor holds, checked under Spec.       *)
(***************************************************************************)
\* C13: the current document and every snapshot of the history have at least
\* one tab, after any sequence of tab edits, loads, undo and redo.
C13_AtLeastOneTab ==
  \A i \in DOMAIN historyState.history : Len(Tabs(historyState.history[i])) >= 1

\* Remove tab has brought a document of two tabs down to one
C13_Witness ==
  /\ historyState.index >= 1
  /\ Len(Tabs(profile)) = 1
  /\ Len(Tabs(historyState.history[historyState.index])) = 2

(***************************************************************************)
(* Properties of the page editor, checked under SpecPage.                  *)
(***************************************************************************)
\* the page and every subpage below it has an integer rows >= 1
RECURSIVE RowsSound(_)
RowsSound(page) ==
  /\ IsInteger(Get(page, K_rows))
  /\ Get(page, K_rows).n10 >= 10
  /\ \A i \in DOMAIN KeysOf(page) :
       Nullish(Get(KeysOf(page)[i], K_page)) \/ RowsSound(Get(KeysOf(page)[i], K_page))

\* C14: in every document of the history, every page at every nesting depth
\* has an integer rows >= 1, whatever loads, Rows edits, added subpages, undo
\* and redo produced it.
C14_RowsIntegerAtLeast1 ==
  \A i \in DOMAIN historyState.history :
    \A t \in DOMAIN Tabs(historyState.history[i]) :
      RowsSound(Get(Tabs(historyState.history[i])[t], K_page))

\* the subpage of the loaded file whose rows was "x" is the current page
C14_Witness ==
  /\ subpagePath = <<0>>
  /\ currentPage # Null
  /\ currentRows = NaN

(***************************************************************************)
(* Labels, checked under Spec.                                             *)
(***************************************************************************)
\* every key label of the page and of every subpage below it is a sequence
\* of at most 3 strings
RECURSIVE KeyLabelsSound(_)
KeyLabelsSound(page) ==
  \A i \in DOMAIN KeysOf(page) :
    /\ StringsUpTo(Get(KeysOf(page)[i], K_label), 0, 3)
    /\ Nullish(Get(KeysOf(page)[i], K_page))
         \/ KeyLabelsSound(Get(KeysOf(page)[i], K_page))

\* C15: in every document of the history every tab label and every key label
\* is a sequence of at most 3 strings, after loads and label edits.
C15_LabelsAtMost3 ==
  \A i \in DOMAIN historyState.history :
    \A t \in DOMAIN Tabs(historyState.history[i]) :
      /\ StringsUpTo(Get(Tabs(historyState.history[i])[t], K_label), 0, 3)
      /\ KeyLabelsSound(Get(Tabs(historyState.history[i])[t], K_page))

\* line 2 of the tab label of the loaded file was edited: the label "APP" of
\* the file has become the three entries A, X, P
C15_Witness ==
  /\ historyState.index = 1
  /\ Get(Tabs(historyState.history[1])[1], K_label) = Str(S_APP)
  /\ Get(Tabs(profile)[1], K_label) = Arr(<<Str(<<"A">>), Str(S_X), Str(<<"P">>)>>)

(***************************************************************************)
(* The serializer's station_id rule, checked under SpecRt.                 *)
(***************************************************************************)
\* the keys of the written page `out` carry station_id exactly where the keys
\* of the page `src` have a non-empty string, with the same value, and so do
\* the subpages below them
RECURSIVE StationsEmitted(_, _)
StationsEmitted(src, out) ==
  \/ ~Nullish(Get(src, K_client_page))
  \/ /\ Len(KeysOf(out)) = Len(KeysOf(src))
     /\ \A i \in DOMAIN KeysOf(src) :
          LET key == KeysOf(src)[i]
              written == KeysOf(out)[i]
              sid == Get(key, K_station_id)
          IN  /\ (Nullish(sid) \/ sid = Str(<<>>)) => ~HasKey(written, K_station_id)
              /\ (IsStr(sid) /\ sid.s # <<>>) =>
                   HasKey(written, K_station_id) /\ Get(written, K_station_id) = sid
              /\ ~Nullish(Get(key, K_page)) =>
                   /\ HasKey(written, K_page)
                   /\ StationsEmitted(Get(key, K_page), Get(written, K_page))

\* C16: the text serializeProfile writes has no station_id for a key whose
\* station_id is absent or the empty string, and has the field with the same
\* value for a key whose station_id is a non-empty string, at every depth.
C16_StationIdEmission ==
  (rt.pc \in {"parsed", "revalidated", "done"} /\ rt.parsed # Undef) =>
    /\ Len(Tabs(rt.parsed)) = Len(Tabs(rt.normalized))
    /\ \A t \in DOMAIN Tabs(rt.normalized) :
         StationsEmitted(Get(Tabs(rt.normalized)[t], K_page),
                         Get(Tabs(rt.parsed)[t], K_page))

\* a document whose key has the station_id "" was written and read back
C16_Witness ==
  /\ rt.pc = "done"
  /\ rt.parsed # Undef
  /\ Nullish(Get(Get(Tabs(rt.normalized)[1], K_page), K_client_page))
  /\ Len(KeysOf(Get(Tabs(rt.normalized)[1], K_page))) = 1
  /\ Len(KeysOf(Get(Tabs(rt.parsed)[1], K_page))) = 1
  /\ Get(KeysOf(Get(Tabs(rt.normalized)[1], K_page))[1], K_station_id) = Str(<<>>)
  /\ ~HasKey(KeysOf(Get(Tabs(rt.parsed)[1], K_page))[1], K_station_id)

(***************************************************************************)
(* The clipboard, checked under SpecClip.                                  *)
(***************************************************************************)
\* how often the key k occurs in the sequence of keys s
Occurrences(k, s) == Cardinality({i \in DOMAIN s : s[i] = k})

\* the j-th smallest member of the set of indices S, j from 1
NthIndex(S, j) == CHOOSE x \in S : Cardinality({y \in S : y < x}) = j - 1

\* s with the block of keys inserted at some place
InsertedSomewhere(s, block, result) ==
  \E at \in 0..Len(s) :
    result = SubSeq(s, 1, at) \o block \o SubSeq(s, at + 1, Len(s))

\* C17: Cut moves the selected keys to the clipboard in ascending index
\* order: every key is as often in the page and the clipboard together as it
\* was in the page.  A Paste of a cut clipboard inserts the keys as one block,
\* each as often as the clipboard holds it and no more, and empties the
\* clipboard; a Paste on an empty clipboard inserts nothing, and only Copy
\* and Cut fill it.  A Paste of a copied clipboard inserts the keys and leaves
\* the clipboard as it was, so that the next Paste inserts them again.
C17_CutPasteOnce ==
  [][ /\ CutKeys =>
           LET S == Range(selectedKeyIndices)
           IN  /\ keyClipboard'.cut
               /\ keyClipboard'.keys = [j \in 1..Cardinality(S) |-> currentKeys[NthIndex(S, j) + 1]]
               /\ currentKeys' = Unpair(FilterOut(currentKeys, selectedKeyIndices))
               /\ \A k \in Range(currentKeys) :
                    Occurrences(k, currentKeys') + Occurrences(k, keyClipboard'.keys)
                      = Occurrences(k, currentKeys)
      /\ (PasteKeys /\ keyClipboard = Null) =>
           historyState' = historyState /\ keyClipboard' = Null
      /\ (PasteKeys /\ keyClipboard # Null) =>
           /\ InsertedSomewhere(currentKeys, keyClipboard.keys, currentKeys')
           /\ keyClipboard' = IF keyClipboard.cut THEN Null ELSE keyClipboard
           /\ \A k \in Range(currentKeys') :
                Occurrences(k, currentKeys')
                  = Occurrences(k, currentKeys) + Occurrences(k, keyClipboard.keys)
      /\ (keyClipboard = Null /\ keyClipboard' # Null) => CopyKeys \/ CutKeys
    ]_vars

\* keys 0 and 1 of the loaded page A, B, C were cut and pasted behind key C
C17_Witness ==
  /\ historyState.index = 2
  /\ keyClipboard = Null
  /\ Len(getKeysAtPath(historyState.history[1], 0, <<>>)) = 3
  /\ Len(getKeysAtPath(historyState.history[2], 0, <<>>)) = 1
  /\ currentKeys = SubSeq(getKeysAtPath(historyState.history[1], 0, <<>>), 3, 3)
                   \o SubSeq(getKeysAtPath(historyState.history[1], 0, <<>>), 1, 2)

\* the indices from a to b inclusive, whichever is the larger
Between(a, b) == {x \in 0..(a + b) : (a <= x /\ x <= b) \/ (b <= x /\ x <= a)}

NoRepeats(s) == Cardinality(Range(s)) = Len(s)

\* C18: a click with the range modifier on a non-empty selection selects
\* every index between the first selected index and the clicked one, in
\* either direction; a click without modifiers selects the clicked index
\* alone; a click with the add modifier (the range rule not applying) toggles
\* the clicked index and leaves the other members as they were.
C18_SelectRule ==
  [][ \A index \in 0..(Len(currentKeys) - 1), add, range \in BOOLEAN :
        HandleSelectKey(index, add, range) =>
          IF range /\ selectedKeyIndices # <<>>
          THEN /\ Range(selectedKeyIndices') = Between(selectedKeyIndices[1], index)
               /\ NoRepeats(selectedKeyIndices')
          ELSE IF add
          THEN /\ Range(selectedKeyIndices') =
                    IF index \in Range(selectedKeyIndices)
                    THEN Range(selectedKeyIndices) \ {index}
                    ELSE Range(selectedKeyIndices) \cup {index}
               /\ NoRepeats(selectedKeyIndices')
          ELSE selectedKeyIndices' = <<index>>
    ]_vars

\* keys 0 to 2 of the loaded page are selected, as after a click on key 0 and
\* a range click on key 2
C18_Witness ==
  /\ selectedKeyIndices = <<0, 1, 2>>
  /\ historyState.index = 0
  /\ keyClipboard = Null

(***************************************************************************)
(* Client pages, checked under SpecPage.                                   *)
(***************************************************************************)
\* the page transforms and key updaters the key operations hand over
SomeKey == Obj(<<Ent(K_label, Arr(<<Str(S_X)>>))>>)

KeyOperations ==
  { [op |-> "addKey"],
    [op |-> "removeKeys", sel |-> <<0>>],
    [op |-> "moveKey", from |-> 0, to |-> 0, swap |-> FALSE],
    [op |-> "pasteKeys", insertAt |-> 0, keys |-> <<SomeKey>>] }

KeyUpdates ==
  { [op |-> "setLabel", label |-> <<Str(S_X)>>],
    [op |-> "setStationId", value |-> S_X],
    [op |-> "addSubpage"],
    [op |-> "clear"] }

\* the tabs (from 0) of the document p whose page has client_page set
ClientTabs(p) ==
  {t \in 0..(Len(Tabs(p)) - 1) : ~Nullish(Get(getPageAtPath(p, t, <<>>), K_client_page))}

\* C19: a key operation (add, remove, move, paste, update key) on a path that
\* resolves to a page with client_page set leaves the client_page value of
\* that page as it was.
C19_ClientPageKept ==
  \A t \in ClientTabs(profile) :
    /\ \A m \in KeyOperations :
         Get(getPageAtPath(mutatePageAtPath(profile, t, <<>>, m), t, <<>>), K_client_page)
           = Get(getPageAtPath(profile, t, <<>>), K_client_page)
    /\ \A u \in KeyUpdates :
         Get(getPageAtPath(updateKeyAtPath(profile, t, <<>>, 0, u), t, <<>>), K_client_page)
           = Get(getPageAtPath(profile, t, <<>>), K_client_page)

\* the client page of the loaded file is shown, and adding a key to it gives
\* a different document
C19_Witness ==
  /\ isClientPage
  /\ selectedTabIndex \in ClientTabs(profile)
  /\ mutatePageAtPath(profile, selectedTabIndex, subpagePath, [op |-> "addKey"]) # profile

\* C20: while a page with client_page set is the current page, no edit the
\* editor offers (a step that adds a snapshot to the history) changes any
\* field of that page.
C20_ClientPageReadOnly ==
  [][ (isClientPage /\ historyState'.history # historyState.history) =>
        getPageAtPath(Current(historyState'), selectedTabIndex, subpagePath) = currentPage
    ]_vars

\* the client page of the loaded file is shown with rows 1; the file said 3
C20_Witness ==
  /\ isClientPage
  /\ historyState.index = 1
  /\ Get(getPageAtPath(historyState.history[1], selectedTabIndex, subpagePath), K_rows) = IntV(3)
  /\ currentRows = IntV(1)
  /\ Get(currentPage, K_client_page)
       = Get(getPageAtPath(historyState.history[1], selectedTabIndex, subpagePath), K_client_page)

(***************************************************************************)
(* Export (downloadProfile) against the canonical serializer.              *)
(***************************************************************************)
\* C21: the content of an exported file is serializeProfile of the current
\* document: fixed field order, inline label arrays within PRINT_WIDTH and
\* one trailing newline.  The code does not satisfy it: downloadProfile
\* writes JSON.stringify(profile, null, 2).
C21_ExportIsSerialize == downloadProfile(profile) = serializeProfile(profile)

\* an edited document (a key was added to the new profile) whose exported
\* text is not the canonical text: the export has no trailing newline
C21_Witness ==
  /\ FromDefault
  /\ Len(currentKeys) = 1
  /\ serializeProfile(profile) # THROW
  /\ downloadProfile(profile) # serializeProfile(profile)
  /\ downloadProfile(profile)[Len(downloadProfile(profile))] = "}"
  /\ serializeProfile(profile)[Len(serializeProfile(profile))] = "\n"

(***************************************************************************)
(* mutatePageAtPath and updateKeyAtPath as functions of the document,      *)
(* applied to every document the page editor reaches.                      *)
(***************************************************************************)
\* tab indices and paths tried on a document: in range, out of range,
\* through a key with a subpage and through one without
ProbeTabs == -1..MaxTabs
ProbePaths == {<<>>, <<-1>>, <<0>>, <<1>>, <<MaxKeysP>>, <<1, 0>>, <<1, 1>>, <<0, 0>>}
ProbeMutations == {[op |-> "addKey"], [op |-> "setRows", rows |-> IntV(1)],
                   [op |-> "removeKeys", sel |-> <<0>>]}

\* C22: mutatePageAtPath changes the document only when getPageAtPath finds
\* a page for the same tab index and path: with the tab index or a path index
\* out of range, or a traversed key without subpage, the resulting document
\* equals the original one.  The code does not satisfy it: a page without a
\* keys field (a client page) gets keys: [] on the way.
C22_UnresolvedIsNoOp ==
  \A t \in ProbeTabs, path \in ProbePaths, m \in ProbeMutations :
    getPageAtPath(profile, t, path) = Null =>
      mutatePageAtPath(profile, t, path, m) = profile

\* Add key ran with a stale path on the client-page tab: the path resolved
\* to no page, and the client page now has an empty keys list
C22_Witness ==
  /\ historyState.index = 1
  /\ selectedTabIndex = 1
  /\ subpagePath = <<1>>
  /\ currentPage = Null
  /\ getPageAtPath(historyState.history[1], 1, <<1>>) = Null
  /\ ~Nullish(GetOpt(getPageAtPath(profile, 1, <<>>), K_client_page))
  /\ GetOpt(getPageAtPath(historyState.history[1], 1, <<>>), K_keys) = Undef
  /\ GetOpt(getPageAtPath(profile, 1, <<>>), K_keys) = Arr(<<>>)

(***************************************************************************)
(* Normalization of nested pages, checked under SpecRt.                    *)
(***************************************************************************)
\* the page `out` has the client_page of the page `src` wherever `src` or a
\* subpage below it has one
RECURSIVE ClientPagesPassed(_, _)
ClientPagesPassed(src, out) ==
  IF ~Nullish(GetOpt(src, K_client_page))
  THEN GetOpt(out, K_client_page) = Get(src, K_client_page)
  ELSE \A i \in DOMAIN KeysOf(src) :
         ~Nullish(GetOpt(KeysOf(src)[i], K_page)) =>
           ClientPagesPassed(Get(KeysOf(src)[i], K_page),
                             GetOpt(At(KeysOf(out), i - 1), K_page))

\* C23: normalizeProfile passes client_page through unchanged at every
\* depth: a page that has client_page set, the page of a tab or a subpage
\* under a key, has the same client_page value in the normal form.  The code
\* does not satisfy it: normalizePage rebuilds a subpage from rows and keys.
C23_ClientPageAtEveryDepth ==
  (rt.normalized # Undef) =>
    \A t \in DOMAIN Tabs(rt.normalized) :
      ClientPagesPassed(Get(Tabs(rt.validated.profile)[t], K_page),
                        Get(Tabs(rt.normalized)[t], K_page))

\* a document whose key has a subpage with client_page was normalized: the
\* subpage of the normal form has no client_page, and an empty keys list
C23_Witness ==
  /\ rt.normalized # Undef
  /\ Len(KeysOf(Get(Tabs(rt.raw)[1], K_page))) = 1
  /\ GetOpt(GetOpt(KeysOf(Get(Tabs(rt.raw)[1], K_page))[1], K_page), K_client_page)
       = ClientPageValue
  /\ Get(KeysOf(Get(Tabs(rt.normalized)[1], K_page))[1], K_page)
       = Obj(<<Ent(K_rows, IntV(1)), Ent(K_keys, Arr(<<>>))>>)

\* the object o without its field k
Without(o, k) == Obj(SelectSeq(o.e, LAMBDA en : en.k # k))

\* below the page `page`, `out` differs only in the page the path leads to,
\* which is `target`: every page on the path keeps its other fields and its
\* other keys, every traversed key its fields other than the subpage
RECURSIVE SpineFrame(_, _, _, _)
SpineFrame(page, out, path, target) ==
  IF path = <<>> THEN out = target
  ELSE LET i == Head(path) + 1
       IN  /\ Without(out, K_keys) = Without(page, K_keys)
           /\ Len(KeysOf(out)) = Len(KeysOf(page))
           /\ \A j \in DOMAIN KeysOf(page) : j # i => KeysOf(out)[j] = KeysOf(page)[j]
           /\ Without(KeysOf(out)[i], K_page) = Without(KeysOf(page)[i], K_page)
           /\ SpineFrame(Get(KeysOf(page)[i], K_page), Get(KeysOf(out)[i], K_page),
                         Tail(path), target)

\* the document `out` differs from p only in the page at (t, path), which
\* is `target`
DocFrame(p, out, t, path, target) ==
  /\ Without(out, K_tabs) = Without(p, K_tabs)
  /\ Len(Tabs(out)) = Len(Tabs(p))
  /\ \A j \in DOMAIN Tabs(p) : j # t + 1 => Tabs(out)[j] = Tabs(p)[j]
  /\ Without(Tabs(out)[t + 1], K_page) = Without(Tabs(p)[t + 1], K_page)
  /\ SpineFrame(Get(Tabs(p)[t + 1], K_page), Get(Tabs(out)[t + 1], K_page), path, target)

\* a transform that returns a page equal to its argument: the rows of the
\* page set to the rows it has
SameRows(page) == [op |-> "setRows", rows |-> Get(page, K_rows)]

\* C24: mutatePageAtPath with a path that getPageAtPath resolves changes only
\* the page at that path, which becomes mutate(page): every other tab, every
\* other key of the pages on the path and every other field of the traversed
\* keys are equal in the result; with a transform that returns its argument
\* the result equals the input.
C24_MutateFrame ==
  \A t \in ProbeTabs, path \in ProbePaths :
    LET page == getPageAtPath(profile, t, path)
    IN  page # Null =>
          /\ \A m \in ProbeMutations :
               DocFrame(profile, mutatePageAtPath(profile, t, path, m), t, path,
                        ApplyPageMutation(m, page))
          /\ mutatePageAtPath(profile, t, path, SameRows(page)) = profile

\* Add key ran inside the subpage of key 1: the document before it had the
\* subpage, and the other key and the other tab are as they were
C24_Witness ==
  /\ subpagePath = <<1>>
  /\ selectedTabIndex = 0
  /\ historyState.index = 1
  /\ Len(Tabs(profile)) = 2
  /\ getPageAtPath(historyState.history[1], 0, <<1>>) # Null
  /\ profile = mutatePageAtPath(historyState.history[1], 0, <<1>>, [op |-> "addKey"])
  /\ profile # historyState.history[1]
  /\ Len(currentKeys) = 2

\* key indices tried on a page: below, in and above the range of its keys
ProbeKeyIndices == -1..MaxKeysP

\* the page `out` is the page `page` with updater(key) in the place of the
\* key at keyIndex, and nothing else changed
KeyReplaced(page, out, keyIndex, u) ==
  /\ Without(out, K_keys) = Without(page, K_keys)
  /\ Len(KeysOf(out)) = Len(KeysOf(page))
  /\ \A j \in DOMAIN KeysOf(page) :
       KeysOf(out)[j] = IF j = keyIndex + 1 THEN ApplyKeyUpdate(u, KeysOf(page)[j])
                        ELSE KeysOf(page)[j]

\* C25: updateKeyAtPath with a path that getPageAtPath resolves and a
\* keyIndex in the range of the page's keys replaces exactly that key with
\* updater(key) and leaves every other key and page equal; with keyIndex
\* negative or >= the key count the resulting document equals the original.
\* The code does not satisfy the second half: a page without a keys field
\* (a client page) gets keys: [].
C25_UpdateKeyFrame ==
  \A t \in ProbeTabs, path \in ProbePaths, keyIndex \in ProbeKeyIndices, u \in KeyUpdates :
    LET page == getPageAtPath(profile, t, path)
        out == updateKeyAtPath(profile, t, path, keyIndex, u)
    IN  page # Null =>
          IF keyIndex >= 0 /\ keyIndex < Len(KeysOf(page))
          THEN /\ getPageAtPath(out, t, path) # Null
               /\ DocFrame(profile, out, t, path, getPageAtPath(out, t, path))
               /\ KeyReplaced(page, getPageAtPath(out, t, path), keyIndex, u)
          ELSE out = profile

\* a document with a client-page tab, after an edit of a key of the other
\* tab: updateKeyAtPath for key 0 of the client page, which has no key,
\* returns a document that is not the original
C25_Witness ==
  /\ historyState.index = 1
  /\ ClientTabs(profile) = {1}
  /\ KeysOf(getPageAtPath(profile, 1, <<>>)) = <<>>
  /\ profile = updateKeyAtPath(historyState.history[1], 0, <<>>, 0,
                               [op |-> "setStationId", value |-> <<"Z">>])
  /\ updateKeyAtPath(profile, 1, <<>>, 0, [op |-> "clear"]) # profile

(***************************************************************************)
(* Edits and the history, checked under SpecPage and SpecClip.             *)
(***************************************************************************)
\* C26: an edit that changes nothing because the subpage path resolves to no
\* page (it became stale after Undo or a tab switch) leaves the snapshots
\* and the cursor of the history as they were: no undo step is added and an
\* available Redo stays available.  The code does not satisfy it:
\* mutateProfile appends the unchanged document and cuts the redo tail.
C26_NoOpEditKeepsHistory ==
  [][ (currentPage = Null /\ (AddKey \/ \E text \in RowsInputs : SetCurrentPageRows(text)))
        => historyState' = historyState ]_vars

\* Add key ran on the stale path of a subpage that Undo had removed: the
\* history holds the same document twice and the redo step is gone
C26_Witness ==
  /\ subpagePath = <<0>>
  /\ currentPage = Null
  /\ historyState.index = 1
  /\ Len(historyState.history) = 2
  /\ historyState.history[2] = historyState.history[1]
  /\ ~canRedo(historyState)
  /\ canUndo(historyState)

\* the clipboard holds keys
ClipboardFilled == IF Nullish(keyClipboard) THEN FALSE ELSE keyClipboard.keys # <<>>

\* the step pasted the clipboard keys as one block at index `at`: the keys
\* before and after the block keep their order, the block is selected
PastedAt(at) ==
  /\ currentKeys' = SubSeq(currentKeys, 1, at) \o keyClipboard.keys
                    \o SubSeq(currentKeys, at + 1, Len(currentKeys))
  /\ Range(selectedKeyIndices') = at..(at + Len(keyClipboard.keys) - 1)
  /\ Len(selectedKeyIndices') = Len(keyClipboard.keys)

\* C30: Paste with keys in the clipboard inserts them as one block, in
\* clipboard order, immediately after the largest selected index, or at the
\* end of the key list when nothing is selected; the keys before and after
\* the block keep their order and the selection becomes the indices of the
\* block.  Paste with an empty clipboard changes nothing.  The code does not
\* satisfy it: with nothing selected no paste is carried out.
C30_PasteBlock ==
  /\ [][ PasteKeys =>
           IF ClipboardFilled
           THEN PastedAt(IF selectedKeyIndices = <<>> THEN Len(currentKeys)
                         ELSE MaxOf(selectedKeyIndices) + 1)
           ELSE UNCHANGED <<historyState, selectedKeyIndices, keyClipboard>> ]_vars
  /\ []((ClipboardFilled /\ selectedKeyIndices = <<>>) =>
          ENABLED (PasteKeys /\ PastedAt(Len(currentKeys)) /\ UNCHANGED <<rt, mon, e2e, vacsStations>>))

\* keys 0 and 1 were cut: the clipboard holds them, nothing is selected, and
\* the one key left is on the page
C30_Witness ==
  /\ ClipboardFilled
  /\ keyClipboard.cut
  /\ Len(keyClipboard.keys) = 2
  /\ selectedKeyIndices = <<>>
  /\ Len(currentKeys) = 1
  /\ historyState.index = 1

\* C27: every edit that changes the document adds exactly one snapshot to
\* the history, also when it moves, cuts, pastes or removes several keys at
\* once: the snapshots up to the cursor stay, the new document follows them
\* and is the current one, and one Undo gives the document of before.
C27_OneSnapshotPerEdit ==
  [][ Current(historyState') # profile =>
        /\ historyState'.index = historyState.index + 1
        /\ Len(historyState'.history) = historyState.index + 2
        /\ SubSeq(historyState'.history, 1, historyState.index + 1)
             = SubSeq(historyState.history, 1, historyState.index + 1)
        /\ canUndo(historyState')
        /\ Current(undo(historyState')) = profile ]_vars

\* two keys were cut and pasted elsewhere: two snapshots were added, the
\* page has its five keys in another order, and one Undo gives the page of
\* three keys
C27_Witness ==
  /\ historyState.index = 2
  /\ Len(historyState.history) = 3
  /\ Len(getKeysAtPath(historyState.history[1], 0, <<>>)) = 5
  /\ Len(getKeysAtPath(historyState.history[2], 0, <<>>)) = 3
  /\ Len(currentKeys) = 5
  /\ currentKeys # getKeysAtPath(historyState.history[1], 0, <<>>)
  /\ Current(undo(historyState)) = historyState.history[2]

(***************************************************************************)
(* The move operations, checked under SpecMove.                            *)
(***************************************************************************)
\* the step moved the key at each selected index by d places, kept the keys
\* that are not selected in their order, and moved the selection with them
MovedBy(d) ==
  /\ Len(currentKeys') = Len(currentKeys)
  /\ \A i \in Range(selectedKeyIndices) : currentKeys'[i + d + 1] = currentKeys[i + 1]
  /\ Range(selectedKeyIndices') = {i + d : i \in Range(selectedKeyIndices)}
  /\ NoRepeats(selectedKeyIndices')

\* the keys that are not selected are in the same order after the step
OthersInOrder ==
  Unpair(FilterOut(currentKeys', selectedKeyIndices'))
    = Unpair(FilterOut(currentKeys, selectedKeyIndices))

\* the step changed neither the document nor the history nor the selection
Refused == UNCHANGED <<historyState, selectedKeyIndices>>

\* C28: Move up of a selection whose smallest index is > 0 puts the key at
\* each selected index i at i - 1, Move down of a selection whose largest
\* index is below the last index puts it at i + 1; the selected keys and the
\* keys that are not selected keep their relative order and the selection
\* becomes the new indices.  With the smallest index 0 (the largest the last
\* index) the document and the selection are unchanged.
C28_MoveUpDown ==
  [][ /\ MoveSelectedKeys("up") =>
           IF MinOf(selectedKeyIndices) > 0 THEN MovedBy(-1) /\ OthersInOrder ELSE Refused
      /\ MoveSelectedKeys("down") =>
           IF MaxOf(selectedKeyIndices) < Len(currentKeys) - 1
           THEN MovedBy(1) /\ OthersInOrder ELSE Refused
    ]_vars

\* keys 1 and 2 of the page A, B, C, D, E were moved down together: the page
\* is A, D, B, C, E and keys 2 and 3 are selected
C28_Witness ==
  /\ historyState.index = 1
  /\ Range(selectedKeyIndices) = {2, 3}
  /\ LET was == getKeysAtPath(historyState.history[1], 0, <<>>)
     IN  /\ Len(was) = 5
         /\ currentKeys = <<was[1], was[4], was[2], was[3], was[5]>>

\* rows of the current page, as an integer
RowsOfPage == currentRows.n10 \div 10

\* C29: Move left of a selection on a page with rows r is refused, leaving
\* document, history and selection unchanged, when the smallest selected
\* index is below r, and Move right when the largest selected index plus r is
\* no index of the page.  Otherwise the key at each selected index i ends at
\* i - r (i + r), also when i - r (i + r) is selected as well, and the
\* selection becomes the new indices.
C29_MoveLeftRight ==
  [][ /\ MoveSelectedKeys("left") =>
           IF MinOf(selectedKeyIndices) < RowsOfPage THEN Refused ELSE MovedBy(-RowsOfPage)
      /\ MoveSelectedKeys("right") =>
           IF MaxOf(selectedKeyIndices) + RowsOfPage >= Len(currentKeys)
           THEN Refused ELSE MovedBy(RowsOfPage)
    ]_vars

\* keys 2 and 4 of the page A, B, C, D, E with two rows were moved left
\* together, key 4 to the place key 2 had: the page is C, B, E, D, A and keys
\* 0 and 2 are selected
C29_Witness ==
  /\ historyState.index = 1
  /\ RowsOfPage = 2
  /\ Range(selectedKeyIndices) = {0, 2}
  /\ LET was == getKeysAtPath(historyState.history[1], 0, <<>>)
     IN  /\ Len(was) = 5
         /\ currentKeys = <<was[3], was[2], was[5], was[4], was[1]>>

\* the keys of the list at the positions that are not in the set S, in
\* their order
KeptPositions(keys, S) ==
  LET rest == (0..(Len(keys) - 1)) \ S
  IN  [j \in 1..Cardinality(rest) |-> keys[NthIndex(rest, j) + 1]]

\* C31: Cut and Remove key delete exactly the keys at the selected indices,
\* taken against the key list of before the removal: the resulting list is
\* the original one without those positions, the remaining keys in their
\* order, and the selection is empty afterwards.
C31_RemoveSelectedPositions ==
  [][ (RemoveKey \/ CutKeys) =>
        /\ currentKeys' = KeptPositions(currentKeys, Range(selectedKeyIndices))
        /\ Len(currentKeys') = Len(currentKeys) - Cardinality(Range(selectedKeyIndices))
        /\ selectedKeyIndices' = <<>> ]_vars

\* keys 1 and 3 of the page A, B, C, D, E were removed or cut: the page is
\* A, C, E and nothing is selected
C31_Witness ==
  /\ historyState.index = 1
  /\ selectedKeyIndices = <<>>
  /\ LET was == getKeysAtPath(historyState.history[1], 0, <<>>)
     IN  /\ Len(was) = 5
         /\ currentKeys = <<was[1], was[3], was[5]>>

(***************************************************************************)
(* Selection and clipboard, checked under SpecNav.                         *)
(***************************************************************************)
\* C32: Undo and Redo restore neither selection nor clipboard: the keys of
\* the clipboard and its cut flag are unchanged by Undo and Redo, and the
\* selection after Undo or Redo is the selection of before with only the
\* indices removed that are no indices of the current page's keys.
C32_UndoRedoKeepSelectionAndClipboard ==
  [][ mon'.last \in {"undo", "redo"} =>
        /\ keyClipboard' = keyClipboard
        /\ \E h \in {historyState'}, t \in {selectedTabIndex'}, path \in {subpagePath'} :
             \E keys \in {getKeysAtPath(Current(h), t, path)} :
               selectedKeyIndices' = SelectSeq(selectedKeyIndices, LAMBDA i : i < Len(keys)) ]_vars

\* Undo ran with a cut key on the clipboard and keys 0 and 1 selected: the
\* page of one key keeps key 0 selected, and the undone page had two keys
C32_Witness ==
  /\ mon.last = "undo"
  /\ ~Nullish(keyClipboard)
  /\ selectedKeyIndices = <<0>>
  /\ Len(currentKeys) = 1
  /\ historyState.index = 1
  /\ Len(historyState.history) = 3
  /\ Len(getKeysAtPath(historyState.history[3], selectedTabIndex, subpagePath)) = 2

\* C33: in every reachable state (the selection filter has run at the end
\* of every handler) the selected indices are strictly ascending, hence
\* without repeats, each is an index into the keys of the page shown, and
\* the selection is empty when the page shown is a client page or the path
\* resolves to no page.
C33_SelectionValid ==
  /\ \A a, b \in DOMAIN selectedKeyIndices :
       a < b => selectedKeyIndices[a] < selectedKeyIndices[b]
  /\ \A a \in DOMAIN selectedKeyIndices :
       selectedKeyIndices[a] \in 0..(Len(currentKeys) - 1)
  /\ (isClientPage \/ Nullish(currentPage)) => selectedKeyIndices = <<>>

\* Redo ran inside a subpage and took away the key that held it: the path
\* resolves to no page and nothing is selected
C33_Witness ==
  /\ mon.last = "redo"
  /\ subpagePath # <<>>
  /\ Nullish(currentPage)
  /\ selectedKeyIndices = <<>>

(***************************************************************************)
(* The print width, checked under SpecWide.                                *)
(***************************************************************************)
\* the lines of a text
LinesOf(text) ==
  LET ends == {i \in DOMAIN text : text[i] = "\n"} \cup {0, Len(text) + 1}
  IN  { SubSeq(text, from + 1, to - 1) :
          <<from, to>> \in {ft \in ends \X ends :
                              /\ ft[1] < ft[2]
                              /\ ~\E m \in ends : ft[1] < m /\ m < ft[2]} }

\* the arrays of primitives only of a value that is printed at line depth
\* ld behind the line head `head` (the property-name prefix, or nothing for
\* an element of an array)
RECURSIVE PrimitiveArrays(_, _, _)
PrimitiveArrays(val, ld, head) ==
  IF isPrimitive(val) THEN {}
  ELSE IF IsArr(val)
  THEN IF \A i \in DOMAIN val.a : isPrimitive(val.a[i])
       THEN {[ld |-> ld, head |-> head, v |-> val]}
       ELSE UNION {PrimitiveArrays(val.a[i], ld + 1, <<>>) : i \in DOMAIN val.a}
  ELSE UNION {PrimitiveArrays(val.e[i].v, ld + 1, QuoteStr(val.e[i].k) \o <<":", " ">>)
                : i \in DOMAIN val.e}

\* the line of the array when it is rendered inline, without the comma that
\* may follow it
InlineLine(site) == Repeat(INDENT, site.ld) \o site.head \o formatInline(site.v)

HasLine(lines, l) == l \in lines \/ (l \o <<",">>) \in lines

\* C34: in the text Serialize gives, every array of primitives only is on
\* one line as [a, b, c] exactly when that line, with its indent and its
\* property-name prefix, has at most 80 characters, and has one element per
\* line otherwise: for the label arrays and for the arrays of primitives
\* anywhere inside a client_page value.
C34_InlineWithinPrintWidth ==
  rt.pc = "serialized" =>
    \E lines \in {LinesOf(rt.serialized)} :
      \A site \in PrimitiveArrays(profileToJson(rt.normalized), 0, <<>>) :
        IF Len(InlineLine(site)) <= PRINT_WIDTH
        THEN HasLine(lines, InlineLine(site))
        ELSE /\ ~HasLine(lines, InlineLine(site))
             /\ (Repeat(INDENT, site.ld) \o site.head \o <<"[">>) \in lines
             /\ \A i \in DOMAIN site.v.a :
                  HasLine(lines, Repeat(INDENT, site.ld + 1) \o PrimText(site.v.a[i]))

\* an array of primitives that is an element of an array inside client_page
\* was rendered inline on a line of more than 80 characters
C34_Witness ==
  /\ rt.pc = "serialized"
  /\ \E site \in PrimitiveArrays(profileToJson(rt.normalized), 0, <<>>) :
       /\ site.head = <<>>
       /\ Len(InlineLine(site)) > PRINT_WIDTH
       /\ HasLine(LinesOf(rt.serialized), InlineLine(site))

(***************************************************************************)
(* Loading malformed files, checked under Spec.                            *)
(***************************************************************************)
\* the text parses and the parsed value passes validateProfile
PassesValidate(text) ==
  \E data \in {JSONparse(text)} : data.ok /\ validateProfile(data.v).ok

\* C35: when the file read is JSON that passes Validate, whatever is
\* malformed below the tab pages (a key that is no object, keys of a subpage
\* that is no array, rows missing), the load is not rejected: no error is
\* shown and the history is replaced by one snapshot, a document that
\* passes Validate.
C35_MalformedDeepDataLoads ==
  [][ (pendingRead # NoFile /\ pendingRead' = NoFile /\ PassesValidate(pendingRead)) =>
        /\ loadError' = Null
        /\ Len(historyState'.history) = 1
        /\ historyState'.index = 0
        /\ validateProfile(Current(historyState')).ok ]_vars

\* the file {"id":"X","type":"Tabbed","tabs":[{"label":"A","page":{"rows":1,
\* "keys":[null]}}]} was read: the TypeError of normalizeProfile is shown
C35_Witness ==
  /\ pendingRead = NoFile
  /\ loadError # Null
  /\ loadError.kind = "TypeError"

(***************************************************************************)
(* The station loader, checked under SpecStations.                         *)
(***************************************************************************)
\* the FIRs of load l that delivered an entry of this id
FirsDefining(l, id) ==
  {o[1] : o \in {x \in Range(l.outcomes) :
                   x[2] = "entries" /\ id \in Range(StationIdsOf(x[1]))}}

\* the first of them in the order of the FIRs of the load
FirstFirDefining(l, id) ==
  l.firs[CHOOSE i \in DOMAIN l.firs :
           /\ l.firs[i] \in FirsDefining(l, id)
           /\ \A j \in 1..(i - 1) : l.firs[j] \notin FirsDefining(l, id)]

\* C36: the list a load of loadStations fulfils with has at most one entry
\* per station id, and the entry of an id that several FIRs define is the
\* one of the first of these FIRs, whatever order their fetches completed
\* in.
C36_FirstFirWins ==
  \A p \in DOMAIN vacsStations.loads :
    vacsStations.loads[p].state = "fulfilled" =>
      \E l \in {vacsStations.loads[p]} :
        /\ \A i, j \in DOMAIN l.value : l.value[i].id = l.value[j].id => i = j
        /\ \A i \in DOMAIN l.value : l.value[i].fir = FirstFirDefining(l, l.value[i].id)

\* both FIRs delivered their stations, F2 before F1, and the entry of X in
\* the list is the one of F2
C36_Witness ==
  \E p \in DOMAIN vacsStations.loads :
    /\ vacsStations.loads[p].state = "fulfilled"
    /\ vacsStations.loads[p].firs = DatasetFirs
    /\ vacsStations.loads[p].outcomes = <<<<"F2", "entries">>, <<"F1", "entries">>>>
    /\ [id |-> "X", fir |-> "F2"] \in Range(vacsStations.loads[p].value)

\* the loads whose promise is pending
InFlight(v) == {p \in DOMAIN v.loads : v.loads[p].state = "pending"}

\* C37: at most one load is in flight; a call of loadStations made while a
\* load is in flight returns the promise of that load, which is pending,
\* and starts no load; a call made when no load is in flight (none was
\* started yet, or the last one has fulfilled or rejected) starts a fresh
\* load and returns its pending promise.
C37_OneLoadInFlight ==
  /\ [](Cardinality(InFlight(vacsStations)) <= 1)
  /\ [][ Len(vacsStations'.returned) = Len(vacsStations.returned) + 1 =>
           \E got \in {vacsStations'.returned[Len(vacsStations'.returned)]} :
             IF InFlight(vacsStations) # {}
             THEN /\ got \in InFlight(vacsStations)
                  /\ vacsStations'.loads = vacsStations.loads
             ELSE /\ got = Len(vacsStations.loads) + 1
                  /\ vacsStations'.loads = Append(vacsStations.loads, NewLoad) ]_vars

\* three calls ran: the first started load 1, the second came while it was
\* in flight and got promise 1, the third came after load 1 had rejected
\* and started load 2
C37_Witness ==
  /\ vacsStations.returned = <<1, 1, 2>>
  /\ vacsStations.loads[1].state = "rejected"
  /\ vacsStations.loads[2].state = "pending"

(***************************************************************************)
(* The shape of the history, checked under SpecHist.                       *)
(***************************************************************************)
\* C38: the history always holds at least one snapshot, the cursor is an
\* index into it (0 <= index < number of snapshots) and the current
\* document is the snapshot at the cursor; an Undo and a Redo leave the
\* sequence of snapshots as it is and move the cursor by at most one.
C38_HistoryShape ==
  /\ [](/\ Len(historyState.history) >= 1
        /\ historyState.index \in 0..(Len(historyState.history) - 1)
        /\ profile = historyState.history[historyState.index + 1])
  /\ [][ (mon'.last \in {"undo", "redo"} /\ mon' # mon) =>
           /\ historyState'.history = historyState.history
           /\ historyState'.index \in
                {historyState.index - 1, historyState.index, historyState.index + 1} ]_vars

\* a Redo moved the cursor to the middle of five snapshots
C38_Witness ==
  /\ mon.last = "redo"
  /\ mon.moved
  /\ Len(historyState.history) = 5
  /\ historyState.index = 2

(***************************************************************************)
(* Reordering keys, checked under SpecPerm.                                *)
(***************************************************************************)
\* r holds the keys of s, each as often as s, and no undefined entry
Permutes(s, r) ==
  /\ Len(r) = Len(s)
  /\ \A k \in Range(s) \cup Range(r) : Occurrences(k, r) = Occurrences(k, s)
  /\ \A i \in DOMAIN r : r[i] # Undef

\* C39: a drag of one key onto another, a move of one selected key, a Swap
\* and a move of several selected keys, all on indices of the page, leave
\* on the page the keys of before, each as often as before and none
\* undefined; Swap is no step unless exactly two keys are selected.
C39_MovesPermute ==
  /\ [](Len(selectedKeyIndices) # 2 => ~ENABLED SwapSelectedKeys)
  /\ [][ (\/ \E from, to \in 0..(Len(currentKeys) - 1) : ReorderKeys(from, to)
          \/ SwapSelectedKeys
          \/ \E direction \in Directions : MoveSelectedKeys(direction)) =>
           \E h \in {historyState'}, t \in {selectedTabIndex'}, path \in {subpagePath'} :
             Permutes(currentKeys, getKeysAtPath(Current(h), t, path)) ]_vars

\* inside the subpage whose rows is NaN the key A was selected and moved
\* left: the page holds undefined, B, C
C39_Witness ==
  /\ historyState.index = 1
  /\ subpagePath = <<0>>
  /\ currentRows = NaN
  /\ Len(currentKeys) = 3
  /\ currentKeys[1] = Undef
  /\ \E was \in {getKeysAtPath(historyState.history[1], 0, <<0>>)} :
       currentKeys[2] = was[2] /\ currentKeys[3] = was[3]

(***************************************************************************)
(* Station ids, checked under SpecStationId.                               *)
(***************************************************************************)
\* a key of the page, or of a subpage below it, has the station_id ""
RECURSIVE HasEmptyStationId(_)
HasEmptyStationId(page) ==
  \E i \in DOMAIN KeysOf(page) :
    \E key \in {KeysOf(page)[i]} :
      /\ ~Nullish(key)
      /\ \/ Get(key, K_station_id) = Str(<<>>)
         \/ ~Nullish(Get(key, K_page)) /\ HasEmptyStationId(Get(key, K_page))

\* C40: no snapshot of a history that starts with a loaded file and goes on
\* with edits of the editor holds a key, at any depth, whose station_id is
\* the empty string.
C40_NoEmptyStationId ==
  \A n \in DOMAIN historyState.history :
    \A t \in DOMAIN Tabs(historyState.history[n]) :
      ~HasEmptyStationId(Get(Tabs(historyState.history[n])[t], K_page))

\* the file was loaded and the key A, whose station_id was [] in the file,
\* holds the station_id ""
C40_Witness ==
  /\ historyState.index = 0
  /\ Len(historyState.history) = 1
  /\ subpagePath = <<>>
  /\ Get(currentKeys[1], K_station_id) = Str(<<>>)
  /\ selectedKeyIndices = <<0>>

=============================================================================
